---- MODULE Spec2Model ----
(***************************************************************************)
(* Marketing-attribution pipeline: event deduplication (dedupe.py),        *)
(* station ranking and spend tables (spend.py), value normalisation        *)
(* (normalization.py) and weekly performance tables (performance.py).      *)
(* Tables are sequences of records; a missing cell is a sentinel value.    *)
(***************************************************************************)
EXTENDS Integers, Sequences, FiniteSets, TLC

VARIABLES
    pc,         \* the step the run is at
    raised,     \* the exception the called function raised, "" if none
    df,         \* dedupe: the mapped events table passed in
    mode,       \* dedupe: the mode argument
    top3,       \* dedupe: the top-3 table argument
    deduped,    \* dedupe: the returned table
    stats,      \* dedupe: the returned statistics
    hdr,        \* compile ledger: its headers, by column
    compile,    \* compile ledger: its rows
    rank_table, \* build_station_priority: the returned rank table
    rank_top3,  \* build_station_priority: the returned top-3 table
    hour_in,    \* coerce_hour_series: the cell of the one-cell series passed in
    hour_out,   \* coerce_hour_series: the cell of the returned series
    actions_dedup,  \* performance: the deduplicated actions passed in
    response_dedup, \* performance: the deduplicated responses passed in
    spend,      \* build_compile_spend: the returned tables, by name
    perf,       \* build_performance_tables: the returned tables (perf_tabs), by name
    market_df,  \* build_market_table: the returned table
    columns,    \* the column order of each weekly table that has rows
    raw_hdr,    \* event mappers: the headers of the raw table, by column
    raw,        \* event mappers: the rows of the raw table
    mapped,     \* map_actions / map_response: the returned table
    action_rev_mode,       \* auto6.py line 135: the action-revenue mode of the run
    actions_m_columns,     \* the columns of the mapped actions (actions_m)
    actions_dedup_columns, \* the columns of actions_dedup after attach_action_revenue
    completed,  \* main: the stages that have returned, in order
    written,    \* main: the outputs written, in order
    exit_code,  \* main: the value main returns, or the code of a SystemExit
    response_hdr,   \* main: the headers of the response extract
    response_raw,   \* main: the rows of the response extract
    pushed      \* sheets.py: the tabs selected for the push and how many of
                \* EXCEL_TO_MASTER the loop has gone through

dedupeVars == <<df, mode, top3, deduped, stats>>
compileVars == <<hdr, compile>>
rankVars == <<rank_table, rank_top3>>
hourVars == <<hour_in, hour_out>>
perfVars == <<actions_dedup, response_dedup, spend, perf, market_df, columns>>
mapVars == <<raw_hdr, raw, mapped>>
revVars == <<action_rev_mode, actions_m_columns, actions_dedup_columns>>
mainVars == <<completed, written, exit_code, response_hdr, response_raw, pushed>>
vars == <<pc, raised, dedupeVars, compileVars, rankVars, hourVars, perfVars, mapVars,
          revVars, mainVars>>

(***************************************************************************)
(* Sentinels for missing values                                            *)
(***************************************************************************)
\* pd.NA / None in a string column
NA == "<NA>"
\* pd.NaT: a missing timestamp (valid timestamps are the naturals)
NaT == -1
\* NaN: a missing or unparseable number
NaN == -9999
\* -np.inf, below every finite Probability
NegInf == -9998
\* pd.Timestamp.max, above every valid timestamp
TimestampMax == 9999
\* a Station that is in no rank table
NoRank == 0

(***************************************************************************)
(* Bounds of the model                                                     *)
(***************************************************************************)
MaxRows == 2
MaxLedgerRows == 2
MaxPerfRows == 2
MaxRawRows == 2

(***************************************************************************)
(* generic helpers                                                         *)
(***************************************************************************)
Min(S) == CHOOSE x \in S : \A y \in S : x <= y

RECURSIVE SumOver(_, _)
\* the sum of f over a finite set of indices (f a function on them)
SumOver(f, S) ==
    IF S = {} THEN 0
    ELSE LET x == CHOOSE y \in S : TRUE IN f[x] + SumOver(f, S \ {x})

\* Python's str ordering on the strings of the model (code point order)
StringsInOrder ==
    <<" wnbc", "Buy", "Click", "Friday", "Monday", "N/A", "NY", "National", "SPOT A",
      "Saturday", "Sunday", "Thursday", "Tuesday", "UNKNOWN", "WABC", "WNBC",
      "Wednesday", "buy", "click", "nan", "national", "spot a", "wabc ">>
StrIndex(s) == CHOOSE k \in 1..Len(StringsInOrder) : StringsInOrder[k] = s
StrLess(a, b) == StrIndex(a) < StrIndex(b)

RECURSIVE SortedSeq(_)
\* the elements of a finite set of integers, ascending
SortedSeq(S) ==
    IF S = {} THEN <<>>
    ELSE LET m == Min(S) IN <<m>> \o SortedSeq(S \ {m})

(***************************************************************************)
(* normalization.py                                                        *)
(***************************************************************************)
\* str.strip() on the station spellings of the model
StrStrip(s) ==
    CASE s = " wnbc" -> "wnbc"
      [] s = "wabc " -> "wabc"
      [] s = " WNBC" -> "WNBC"
      [] s = "WABC " -> "WABC"
      [] s = " "     -> ""
      [] OTHER       -> s

\* str.upper() on the cells and column names of the model
StrUpper(s) ==
    CASE s = "wnbc" -> "WNBC"
      [] s = " wnbc" -> " WNBC"
      [] s = "wabc" -> "WABC"
      [] s = "wabc " -> "WABC "
      [] s = "n/a" -> "N/A"
      [] s = "na" -> "NA"
      [] s = "none" -> "NONE"
      [] s = "null" -> "NULL"
      [] s = "nan" -> "NAN"
      [] s = "<na>" -> "<NA>"
      [] s = "unknown" -> "UNKNOWN"
      [] s = "Unknown" -> "UNKNOWN"
      [] s = "spot a" -> "SPOT A"
      [] s = "ny" -> "NY"
      [] s = "national" -> "NATIONAL"
      [] s = "National" -> "NATIONAL"
      [] s = "national cable" -> "NATIONAL CABLE"
      [] s = "National Cable" -> "NATIONAL CABLE"
      [] s = "national network" -> "NATIONAL NETWORK"
      [] s = "National Network" -> "NATIONAL NETWORK"
      [] s = "buy" -> "BUY"
      [] s = "Buy" -> "BUY"
      [] s = "click" -> "CLICK"
      [] s = "Click" -> "CLICK"
      [] s = "Monday" -> "MONDAY"
      [] s = "Tuesday" -> "TUESDAY"
      [] s = "Wednesday" -> "WEDNESDAY"
      [] s = "Thursday" -> "THURSDAY"
      [] s = "Friday" -> "FRIDAY"
      [] s = "Saturday" -> "SATURDAY"
      [] s = "Sunday" -> "SUNDAY"
      [] s = "Daytime" -> "DAYTIME"
      [] s = "Early Morning" -> "EARLY MORNING"
      [] s = "Late Fringe" -> "LATE FRINGE"
      [] s = "Overnight" -> "OVERNIGHT"
      [] s = "Prime" -> "PRIME"
      [] s = "Action" -> "ACTION"
      [] s = "Action Revenue" -> "ACTION REVENUE"
      [] s = "ActionHour" -> "ACTIONHOUR"
      [] s = "ActionTimestamp" -> "ACTIONTIMESTAMP"
      [] s = "ActionWeekday" -> "ACTIONWEEKDAY"
      [] s = "Actions_Total" -> "ACTIONS_TOTAL"
      [] s = "Client" -> "CLIENT"
      [] s = "Client Gross" -> "CLIENT GROSS"
      [] s = "Client Gross Amt" -> "CLIENT GROSS AMT"
      [] s = "Cost" -> "COST"
      [] s = "Cost per Actions_Total" -> "COST PER ACTIONS_TOTAL"
      [] s = "Cost per Response" -> "COST PER RESPONSE"
      [] s = "Creative" -> "CREATIVE"
      [] s = "Date" -> "DATE"
      [] s = "Day" -> "DAY"
      [] s = "Daypart" -> "DAYPART"
      [] s = "Event" -> "EVENT"
      [] s = "Gross" -> "GROSS"
      [] s = "Hour" -> "HOUR"
      [] s = "Impressions" -> "IMPRESSIONS"
      [] s = "Market" -> "MARKET"
      [] s = "Network" -> "NETWORK"
      [] s = "Probability" -> "PROBABILITY"
      [] s = "RawCost" -> "RAWCOST"
      [] s = "RawImpressions" -> "RAWIMPRESSIONS"
      [] s = "Responses" -> "RESPONSES"
      [] s = "Revenue" -> "REVENUE"
      [] s = "Session ID" -> "SESSION ID"
      [] s = "SessionID" -> "SESSIONID"
      [] s = "SourceRowID" -> "SOURCEROWID"
      [] s = "Spend" -> "SPEND"
      [] s = "Spot Count" -> "SPOT COUNT"
      [] s = "Spots" -> "SPOTS"
      [] s = "Station" -> "STATION"
      [] s = "Time" -> "TIME"
      [] s = "Timestamp" -> "TIMESTAMP"
      [] s = "TotalActionRevenue" -> "TOTALACTIONREVENUE"
      [] s = "TotalActionRevenue_x" -> "TOTALACTIONREVENUE_X"
      [] s = "TotalActionRevenue_y" -> "TOTALACTIONREVENUE_Y"
      [] s = "Visit Date" -> "VISIT DATE"
      [] s = "Visit Time" -> "VISIT TIME"
      [] s = "VisitHour" -> "VISITHOUR"
      [] s = "VisitTimestamp" -> "VISITTIMESTAMP"
      [] s = "VisitWeekday" -> "VISITWEEKDAY"
      [] s = "Week Of (Mon)" -> "WEEK OF (MON)"
      [] OTHER -> s

\* str.lower() on the cells, headers and column names of the model
StrLower(s) ==
    CASE s = "WNBC" -> "wnbc"
      [] s = " WNBC" -> " wnbc"
      [] s = "WABC" -> "wabc"
      [] s = "WABC " -> "wabc "
      [] s = "N/A" -> "n/a"
      [] s = "NA" -> "na"
      [] s = "NONE" -> "none"
      [] s = "NULL" -> "null"
      [] s = "NAN" -> "nan"
      [] s = "<NA>" -> "<na>"
      [] s = "Unknown" -> "unknown"
      [] s = "UNKNOWN" -> "unknown"
      [] s = "SPOT A" -> "spot a"
      [] s = "NY" -> "ny"
      [] s = "National" -> "national"
      [] s = "NATIONAL" -> "national"
      [] s = "National Cable" -> "national cable"
      [] s = "NATIONAL CABLE" -> "national cable"
      [] s = "National Network" -> "national network"
      [] s = "NATIONAL NETWORK" -> "national network"
      [] s = "Buy" -> "buy"
      [] s = "BUY" -> "buy"
      [] s = "Click" -> "click"
      [] s = "CLICK" -> "click"
      [] s = "Monday" -> "monday"
      [] s = "Tuesday" -> "tuesday"
      [] s = "Wednesday" -> "wednesday"
      [] s = "Thursday" -> "thursday"
      [] s = "Friday" -> "friday"
      [] s = "Saturday" -> "saturday"
      [] s = "Sunday" -> "sunday"
      [] s = "Daytime" -> "daytime"
      [] s = "Early Morning" -> "early morning"
      [] s = "Late Fringe" -> "late fringe"
      [] s = "Overnight" -> "overnight"
      [] s = "Prime" -> "prime"
      [] s = "ACME" -> "acme"
      [] s = "S1" -> "s1"
      [] s = "S2" -> "s2"
      [] s = "Action" -> "action"
      [] s = "Action Revenue" -> "action revenue"
      [] s = "ActionHour" -> "actionhour"
      [] s = "ActionTimestamp" -> "actiontimestamp"
      [] s = "ActionWeekday" -> "actionweekday"
      [] s = "Actions_Total" -> "actions_total"
      [] s = "Client" -> "client"
      [] s = "Client Gross" -> "client gross"
      [] s = "Client Gross Amt" -> "client gross amt"
      [] s = "Cost" -> "cost"
      [] s = "Cost per Actions_Total" -> "cost per actions_total"
      [] s = "Cost per Response" -> "cost per response"
      [] s = "Creative" -> "creative"
      [] s = "Date" -> "date"
      [] s = "Day" -> "day"
      [] s = "Daypart" -> "daypart"
      [] s = "Event" -> "event"
      [] s = "Gross" -> "gross"
      [] s = "Hour" -> "hour"
      [] s = "Impressions" -> "impressions"
      [] s = "Market" -> "market"
      [] s = "Network" -> "network"
      [] s = "Probability" -> "probability"
      [] s = "RawCost" -> "rawcost"
      [] s = "RawImpressions" -> "rawimpressions"
      [] s = "Responses" -> "responses"
      [] s = "Revenue" -> "revenue"
      [] s = "ROI" -> "roi"
      [] s = "Session ID" -> "session id"
      [] s = "SessionID" -> "sessionid"
      [] s = "SourceRowID" -> "sourcerowid"
      [] s = "Spend" -> "spend"
      [] s = "Spot Count" -> "spot count"
      [] s = "Spots" -> "spots"
      [] s = "Station" -> "station"
      [] s = "Time" -> "time"
      [] s = "Timestamp" -> "timestamp"
      [] s = "TotalActionRevenue" -> "totalactionrevenue"
      [] s = "TotalActionRevenue_x" -> "totalactionrevenue_x"
      [] s = "TotalActionRevenue_y" -> "totalactionrevenue_y"
      [] s = "Visit Date" -> "visit date"
      [] s = "Visit Time" -> "visit time"
      [] s = "VisitHour" -> "visithour"
      [] s = "VisitTimestamp" -> "visittimestamp"
      [] s = "VisitWeekday" -> "visitweekday"
      [] s = "Week Of (Mon)" -> "week of (mon)"
      [] OTHER -> s

\* normalize(col): lower case, alphanumerics only, on the headers of the model
normalize(col) ==
    CASE col = "Station"          -> "station"
      [] col = "Cost"             -> "cost"
      [] col = "Client Gross"     -> "clientgross"
      [] col = "Client Gross Amt" -> "clientgrossamt"
      [] col = "Gross"            -> "gross"
      [] col = "Spend"            -> "spend"
      [] col = "Spots"            -> "spots"
      [] col = "Spot Count"       -> "spotcount"
      [] col = "Impressions"      -> "impressions"
      [] col = "Creative"         -> "creative"
      [] col = "Date"             -> "date"
      [] col = "Time"             -> "time"
      [] col = "Market"           -> "market"
      [] col = "Session ID"       -> "sessionid"
      [] col = "Event"            -> "event"
      [] col = "Probability"      -> "probability"
      [] col = "Network"          -> "network"
      [] col = "Timestamp"        -> "timestamp"
      [] col = "Visit Date"       -> "visitdate"
      [] col = "Visit Time"       -> "visittime"
      [] col = "Revenue"          -> "revenue"
      [] OTHER                    -> col

NullLiterals == {"", "NONE", "N/A", "NA", "<NA>", "NULL"}

\* norm_station_series, one cell: strip, upper, null literals to NA
norm_station(s) ==
    IF s = NA THEN NA
    ELSE LET u == StrUpper(StrStrip(s))
         IN IF u \in NullLiterals THEN NA ELSE u

\* Series.fillna on one cell
fillna(x, missing, v) == IF x = missing THEN v ELSE x

\* coerce_datetime, one cell: a valid timestamp stays, anything else is NaT
coerce_datetime(x) == IF x >= 0 THEN x ELSE NaT

\* coerce_numeric, one cell: a number stays, anything else is NaN
coerce_numeric(x) == x

\* {normalize(c): c for c in df.columns}, the columns named by their slot
cols_norm(h) == {normalize(h[c]) : c \in {x \in DOMAIN h : h[x] # NA}}
ColumnOf(h, key) == CHOOSE c \in DOMAIN h : h[c] # NA /\ normalize(h[c]) = key

\* first_col_by_keys: the column of the first key that matches a header
first_col_by_keys(h, keys) ==
    LET hit == {k \in 1..Len(keys) : keys[k] \in cols_norm(h)}
    IN IF hit = {} THEN NA ELSE ColumnOf(h, keys[Min(hit)])

(***************************************************************************)
(* normalization.py: coerce_hour_series, on a series of one cell           *)
(*                                                                         *)
(* A cell is [kind, v]:                                                    *)
(*   "number"   a float or an int; v is the value in hundredths            *)
(*   "numtext"  a string holding that number ("630", "0.75")               *)
(*   "timetext" a string holding a time of day ("6:30 AM"); v is its hour  *)
(*   "timeobj"  a datetime.time; v is its hour                             *)
(*   "junk"     any other string;  "missing"  None / NaN                   *)
(***************************************************************************)
NoCell == [kind |-> "missing", v |-> 0]
Hundredths == 100
\* pd.to_datetime reads a bare number as nanoseconds since the epoch
NsPerMs == 1000000
MsPerHour == 3600000
\* the years a nanosecond Timestamp can hold whole
MinYear == 1678
MaxYear == 2262

\* line 41: pd.to_datetime(s, errors="coerce").dt.hour
\*   a number is nanoseconds since 1970-01-01 00:00;
\*   a string of a whole number of four digits is a year, midnight of its first
\*   day, when a Timestamp can hold it; other numeric strings do not parse
DatetimeHour(c) ==
    CASE c.kind = "timetext" -> c.v
      [] c.kind = "number"   -> (((c.v \div Hundredths) \div NsPerMs) \div MsPerHour) % 24
      [] c.kind = "numtext"  -> IF /\ c.v % Hundredths = 0
                                   /\ c.v \div Hundredths >= MinYear
                                   /\ c.v \div Hundredths <= MaxYear
                                THEN 0 ELSE NaN
      [] OTHER               -> NaN

\* line 47: pd.to_numeric(s, errors="coerce"), in hundredths
NumericValue(c) == IF c.kind \in {"number", "numtext"} THEN c.v ELSE NaN

\* lines 49-50
frac_mask(c) ==
    NumericValue(c) # NaN /\ NumericValue(c) >= 0 /\ NumericValue(c) < 1 * Hundredths
hours_frac(c) == (NumericValue(c) * 24) \div Hundredths

\* lines 52-53
hhmm_mask(c) ==
    /\ NumericValue(c) # NaN
    /\ NumericValue(c) >= 100 * Hundredths
    /\ NumericValue(c) <= 2359 * Hundredths
hours_hhmm(c) == ((NumericValue(c) \div Hundredths) \div 100) % 24

\* lines 61-68
time_hour(c) == IF c.kind = "timeobj" THEN c.v ELSE NaN

\* lines 37-76
coerce_hour(c) ==
    LET h1 == DatetimeHour(c)
        h2 == IF frac_mask(c) /\ h1 = NaN THEN hours_frac(c) ELSE h1
        h3 == IF hhmm_mask(c) /\ h2 = NaN THEN hours_hhmm(c) ELSE h2
    IN IF h3 = NaN THEN time_hour(c) ELSE h3

(***************************************************************************)
(* dedupe.py: inputs                                                       *)
(***************************************************************************)
SessionIDs == {"S1", "S2", NA}
RawStations == {"WABC", " wnbc"}
Timestamps == {NaT, 1, 2}
Probabilities == {NaN, 1, 2}
Modes == {"with_action", "session_only"}

\* the (SessionID, Action) pairs of the actions extract
ActionKeys == {<<"S1", "Click">>, <<"S1", "Buy">>, <<NA, "Click">>}

MappedRows ==
    {[SessionID |-> k[1], Action |-> k[2], Station |-> s, Timestamp |-> t,
      Probability |-> q] :
        k \in ActionKeys, s \in RawStations, t \in Timestamps, q \in Probabilities}

\* rows of the response extract (no Action, no Probability)
ResponseRows ==
    [SessionID : SessionIDs, Station : RawStations, Timestamp : Timestamps]

\* top-3 tables as build_station_priority returns them: Station, Rank
Top3Tables ==
    { <<[Station |-> "WABC", Rank |-> 1], [Station |-> "WNBC", Rank |-> 2]>>,
      <<[Station |-> "WNBC", Rank |-> 1]>> }

(***************************************************************************)
(* dedupe.py: dedupe_actions                                               *)
(***************************************************************************)
\* lines 51-59: the working copy; __order and SourceRowID are the row position
PrepareActions(d) ==
    [i \in 1..Len(d) |->
        [SessionID   |-> d[i].SessionID,
         Action      |-> d[i].Action,
         Station     |-> fillna(norm_station(d[i].Station), NA, "UNKNOWN"),
         Timestamp   |-> coerce_datetime(d[i].Timestamp),
         Probability |-> fillna(coerce_numeric(d[i].Probability), NaN, NegInf),
         SourceRowID |-> i - 1]]

\* line 62: Station -> Rank, a later row of top3 overriding an earlier one
rank_map(t, s) ==
    LET hits == {k \in 1..Len(t) : t[k].Station = s}
    IN IF hits = {} THEN NoRank
       ELSE t[CHOOSE k \in hits : \A j \in hits : j <= k].Rank

\* ", ".join(keys)
RECURSIVE JoinComma(_)
JoinComma(keys) ==
    IF Len(keys) = 0 THEN ""
    ELSE IF Len(keys) = 1 THEN keys[1]
    ELSE keys[1] \o ", " \o JoinComma(Tail(keys))

\* line 64
group_keys(m) ==
    IF m = "session_only" THEN <<"SessionID">> ELSE <<"SessionID", "Action">>

KeyOf(row, m) ==
    IF m = "session_only" THEN <<row.SessionID>> ELSE <<row.SessionID, row.Action>>

\* groupby drops a row whose key has a missing component (dropna=True)
KeyPresent(row, m) == \A k \in 1..Len(KeyOf(row, m)) : KeyOf(row, m)[k] # NA

\* a variant of GroupHeads that keeps only the keys that repeat
GroupHeads_RepeatedKeys(p, m) ==
    {i \in 1..Len(p) : /\ KeyPresent(p[i], m)
                       /\ \A j \in 1..(i - 1) : KeyOf(p[j], m) # KeyOf(p[i], m)
                       /\ \E j \in (i + 1)..Len(p) : KeyOf(p[j], m) = KeyOf(p[i], m)}

\* groupby(sort=False): the groups in order of first appearance, each group
\* named by the position of its first row
GroupHeads(p, m) ==
    {i \in 1..Len(p) : /\ KeyPresent(p[i], m)
                       /\ \A j \in 1..(i - 1) : KeyOf(p[j], m) # KeyOf(p[i], m)}

GroupOf(p, m, h) == {i \in 1..Len(p) : KeyOf(p[i], m) = KeyOf(p[h], m)}

\* a variant of ts_sort that puts a missing Timestamp first
ts_sort_MissingFirst(row) == fillna(row.Timestamp, NaT, 0)

\* line 79
ts_sort(row) == fillna(row.Timestamp, NaT, TimestampMax)

\* a variant of BeforeByTime that sorts by row order alone
BeforeByTime_RowOrder(p, i, j) == i <= j

\* sort_values(["__ts_sort", "__order"]) ascending: i sorts before j
BeforeByTime(p, i, j) ==
    \/ ts_sort(p[i]) < ts_sort(p[j])
    \/ ts_sort(p[i]) = ts_sort(p[j]) /\ i <= j

\* a variant of BeforeByProbability that skips the Timestamp key
BeforeByProbability_NoTime(p, i, j) ==
    \/ p[i].Probability > p[j].Probability
    \/ p[i].Probability = p[j].Probability /\ i <= j

\* sort_values(["Probability", "__ts_sort", "__order"], [False, True, True])
BeforeByProbability(p, i, j) ==
    \/ p[i].Probability > p[j].Probability
    \/ p[i].Probability = p[j].Probability /\ BeforeByTime(p, i, j)

\* a variant of Top3Rows that looks at the first row of the group only
Top3Rows_FirstRowOnly(p, t, g) ==
    {i \in g : rank_map(t, p[i].Station) # NoRank /\ \A j \in g : i <= j}

\* lines 81-82
Top3Rows(p, t, g) == {i \in g : rank_map(t, p[i].Station) # NoRank}

\* a variant of Winner that always applies the probability rule
Winner_ProbabilityOnly(p, t, g) ==
    CHOOSE i \in g : \A j \in g : BeforeByProbability(p, i, j)

\* lines 83-86 and 89-90: the row kept for group g
Winner(p, t, g) ==
    LET top3_g == Top3Rows(p, t, g)
    IN IF top3_g # {}
       THEN LET best_rank == Min({rank_map(t, p[i].Station) : i \in top3_g})
                cand == {i \in top3_g : rank_map(t, p[i].Station) = best_rank}
            IN CHOOSE i \in cand : \A j \in cand : BeforeByTime(p, i, j)
       ELSE CHOOSE i \in g : \A j \in g : BeforeByProbability(p, i, j)

\* lines 75-100: the kept rows in group order, and the statistics
dedupe_actions(d, t, m) ==
    LET p == PrepareActions(d)
        heads == SortedSeq(GroupHeads(p, m))
        kept == [k \in 1..Len(heads) |-> p[Winner(p, t, GroupOf(p, m, heads[k]))]]
        byTop3 == {k \in 1..Len(heads) : Top3Rows(p, t, GroupOf(p, m, heads[k])) # {}}
    IN [rows  |-> kept,
        stats |-> [mode |-> m,
                   group_keys |-> JoinComma(group_keys(m)),
                   groups |-> Len(heads),
                   kept_by_top3 |-> Cardinality(byTop3),
                   kept_by_probability |-> Len(heads) - Cardinality(byTop3)]]

(***************************************************************************)
(* dedupe.py: dedupe_response                                              *)
(***************************************************************************)
\* lines 105-108
PrepareResponse(d) ==
    [i \in 1..Len(d) |-> [d[i] EXCEPT !.Timestamp = coerce_datetime(d[i].Timestamp)]]

\* groupby("SessionID", sort=False)
ResponseHeads(p) ==
    {i \in 1..Len(p) : /\ p[i].SessionID # NA
                       /\ \A j \in 1..(i - 1) : p[j].SessionID # p[i].SessionID}

ResponseGroup(p, h) == {i \in 1..Len(p) : p[i].SessionID = p[h].SessionID}

\* lines 113-117
ResponseWinner(p, g) == CHOOSE i \in g : \A j \in g : BeforeByTime(p, i, j)

\* lines 110-120; kept[0] on line 119 raises IndexError when no group exists
dedupe_response(d) ==
    LET p == PrepareResponse(d)
        heads == SortedSeq(ResponseHeads(p))
        kept == [k \in 1..Len(heads) |-> p[ResponseWinner(p, ResponseGroup(p, heads[k]))]]
    IN [rows   |-> kept,
        stats  |-> [groups |-> Len(heads)],
        raised |-> IF Len(heads) = 0 THEN "IndexError" ELSE ""]


(***************************************************************************)
(* spend.py: the compile ledger                                            *)
(***************************************************************************)
\* groupby(col), sort=True: the distinct present keys in ascending order
RECURSIVE SortedKeys(_)
SortedKeys(S) ==
    IF S = {} THEN <<>>
    ELSE LET m == CHOOSE x \in S : \A y \in S : x = y \/ StrLess(x, y)
         IN <<m>> \o SortedKeys(S \ {m})

\* the cells of a column with coerce_numeric(...).fillna(0) applied
NumericColumn(rows, c) == [i \in 1..Len(rows) |-> fillna(coerce_numeric(rows[i][c]), NaN, 0)]

(***************************************************************************)
(* spend.py: build_station_priority                                        *)
(***************************************************************************)
\* lines 258-259
has_cost(h) == {"cost", "clientgross", "gross", "spend"} \cap cols_norm(h) # {}
has_spotcount_col(h) == {"spotcount", "spots"} \cap cols_norm(h) # {}

\* line 263: the branch that reads the spot-count column
UsesSpotColumn(h) ==
    has_cost(h) /\ has_spotcount_col(h) /\ {"cost", "clientgross"} \cap cols_norm(h) # {}

\* line 264 and lines 283-288: the cost column of each branch, NA if none
RankCostColumn(h) ==
    IF UsesSpotColumn(h)
    THEN first_col_by_keys(h, <<"cost", "clientgross", "gross", "spend">>)
    ELSE first_col_by_keys(h, <<"clientgross", "gross", "cost", "spend">>)

\* line 265
RankSpotColumn(h) == first_col_by_keys(h, <<"spotcount", "spots">>)

\* lines 274-281 and 298-308: one row per raw station cell, in groupby order,
\* then the Station canonicalised
StationAgg(h, rows) ==
    LET station_col == first_col_by_keys(h, <<"station", "stationname", "channel">>)
        cost_col == RankCostColumn(h)
        impressions_col == first_col_by_keys(h, <<"impressions">>)
        keys == SortedKeys({rows[i][station_col] : i \in 1..Len(rows)} \ {NA})
        cost == NumericColumn(rows, cost_col)
        members(k) == {i \in 1..Len(rows) : rows[i][station_col] = keys[k]}
    IN [k \in 1..Len(keys) |->
          [Station     |-> fillna(norm_station(keys[k]), NA, "UNKNOWN"),
           Cost        |-> SumOver(cost, members(k)),
           SpotCount   |-> IF UsesSpotColumn(h)
                           THEN SumOver(NumericColumn(rows, RankSpotColumn(h)), members(k))
                           ELSE Cardinality(members(k)),
           Impressions |-> IF impressions_col = NA THEN 0
                           ELSE SumOver(NumericColumn(rows, impressions_col), members(k))]]

\* line 314: cost_per_spot of a is greater than that of b (SpotCount > 0)
CostPerSpotGreater(a, b) == a.Cost * b.SpotCount > b.Cost * a.SpotCount

\* a variant of RankBefore that orders cost_per_spot ascending
RankBefore_Ascending(a, b) ==
    \/ CostPerSpotGreater(b, a)
    \/ /\ ~CostPerSpotGreater(a, b) /\ ~CostPerSpotGreater(b, a)
       /\ \/ a.Cost > b.Cost
          \/ a.Cost = b.Cost /\ a.SpotCount > b.SpotCount
          \/ a.Cost = b.Cost /\ a.SpotCount = b.SpotCount /\ StrLess(a.Station, b.Station)

\* line 315: a sorts strictly before b
RankBefore(a, b) ==
    \/ CostPerSpotGreater(a, b)
    \/ /\ ~CostPerSpotGreater(a, b) /\ ~CostPerSpotGreater(b, a)
       /\ \/ a.Cost > b.Cost
          \/ a.Cost = b.Cost /\ a.SpotCount > b.SpotCount
          \/ a.Cost = b.Cost /\ a.SpotCount = b.SpotCount /\ StrLess(a.Station, b.Station)

\* sort_values on several keys is stable: rows equal on all keys keep their order
SortRank(t) ==
    LET before(i, j) == RankBefore(t[i], t[j]) \/ (~RankBefore(t[j], t[i]) /\ i < j)
        place(i) == Cardinality({j \in 1..Len(t) : before(j, i)}) + 1
    IN [k \in 1..Len(t) |-> t[CHOOSE i \in 1..Len(t) : place(i) = k]]

\* lines 249-318: [raised, rankable, top3]
build_station_priority(h, rows) ==
    IF first_col_by_keys(h, <<"station", "stationname", "channel">>) = NA
    THEN [raised |-> "ValueError", rankable |-> <<>>, top3 |-> <<>>]
    ELSE IF RankCostColumn(h) = NA
    THEN [raised |-> "ValueError", rankable |-> <<>>, top3 |-> <<>>]
    ELSE
      LET agg == StationAgg(h, rows)
          kept == SelectSeq(agg, LAMBDA r : r.SpotCount > 0)
          sorted == SortRank(kept)
          rankable == [k \in 1..Len(sorted) |->
                         [Station |-> sorted[k].Station, Cost |-> sorted[k].Cost,
                          SpotCount |-> sorted[k].SpotCount,
                          Impressions |-> sorted[k].Impressions, Rank |-> k]]
          firsts == {k \in 1..Len(rankable) :
                        \A j \in 1..(k - 1) : rankable[j].Station # rankable[k].Station}
          heads == SortedSeq(firsts)
      IN [raised |-> "", rankable |-> rankable,
          top3 |-> [k \in 1..(IF Len(heads) < 3 THEN Len(heads) ELSE 3) |-> rankable[heads[k]]]]

(***************************************************************************)
(* calendar: a timestamp is a whole number of hours counted from the       *)
(* Monday 00:00 that starts the first week; a week label is the day number *)
(* of the Monday that starts the week (the date the label prints)          *)
(***************************************************************************)
HoursPerDay == 24
DaysPerWeek == 7
WeekCol == "Week Of (Mon)"
DayNames == <<"Monday", "Tuesday", "Wednesday", "Thursday", "Friday", "Saturday", "Sunday">>

\* Series.dt.hour, one cell
dt_hour(ts) == IF ts = NaT THEN NaN ELSE ts % HoursPerDay

\* Series.dt.day_name(), one cell
day_name(ts) ==
    IF ts = NaT THEN NA ELSE DayNames[((ts \div HoursPerDay) % DaysPerWeek) + 1]

\* week_label_series, one cell: to_period('W-SUN').start_time, printed
week_label_series(ts) ==
    IF ts = NaT THEN NaN
    ELSE ((ts \div HoursPerDay) \div DaysPerWeek) * DaysPerWeek

(***************************************************************************)
(* data frames: a row is a function from column names to cells             *)
(***************************************************************************)
\* the columns whose cells are numbers; the other key columns hold strings
NumberColumns == {"Hour", WeekCol}
Missing(col) == IF col \in NumberColumns THEN NaN ELSE NA
ValLess(col, x, y) == IF col \in NumberColumns THEN x < y ELSE StrLess(x, y)

Range(s) == {s[i] : i \in DOMAIN s}

\* the key of a row under groupby(keys) / merge(on=keys)
GroupKey(row, keys) == [c \in Range(keys) |-> row[c]]

\* groupby drops a row that has a missing key cell (dropna=True)
HasKey(row, keys) == \A c \in Range(keys) : row[c] # Missing(c)

\* lexicographic order on the key columns
KeyLess(keys, a, b) ==
    \E i \in 1..Len(keys) :
        /\ \A j \in 1..(i - 1) : a[keys[j]] = b[keys[j]]
        /\ ValLess(keys[i], a[keys[i]], b[keys[i]])

\* the rows of S in the strict total order before, a function on S \X S
SortSetBy(S, before) ==
    LET place(x) == Cardinality({y \in S : before[<<y, x>>]}) + 1
    IN [k \in 1..Cardinality(S) |-> CHOOSE x \in S : place(x) = k]

\* the rows of S in ascending order of the key columns
SortByKeys(S, keys) == SortSetBy(S, [p \in S \X S |-> KeyLess(keys, p[1], p[2])])

\* a groupby sum over the member rows; a NaN cell is skipped
SumSkipNa(frame, col, members) ==
    SumOver([i \in DOMAIN frame |-> fillna(frame[i][col], NaN, 0)], members)

(***************************************************************************)
(* spend.py: build_compile_spend                                           *)
(***************************************************************************)
\* lines 23-39 and 114: the header keys each column is looked up by
StationKeys == <<"station", "stationname", "channel">>
SpendCostKeys == <<"clientgross", "clientgrossamt", "cost", "gross", "spend">>
ImpressionKeys == <<"impressions">>
CreativeKeys == <<"tapeaired", "programaired", "creative", "szspottitle">>
DateKeys ==
    <<"dateaired", "dateairedmmddyyyy", "dateairedyyyymmdd", "dateairedyyyy-mm-dd",
      "dateaired2024", "dateairedmmyy", "datea", "date_aired", "airdate", "date">>
TimeKeys == <<"timeaired", "time_aired", "airtime", "time">>
MarketKeys == <<"market", "t_adspots_market">>

\* lines 63 and 155: strip, upper, "" to NA
norm_creative(s) ==
    IF s = NA THEN NA
    ELSE LET u == StrUpper(StrStrip(s)) IN IF u = "" THEN NA ELSE u

\* lines 126 and 214: astype(str), strip, national cable/network to National
norm_market(s) ==
    IF s = NA THEN "nan"
    ELSE LET t == StrStrip(s)
         IN IF t \in {"National Cable", "national cable", "National Network",
                      "national network"}
            THEN "National" ELSE t

\* the ledger with the derived columns of lines 42-50, 76-77, 91 and 133-134
LedgerView(h, rows) ==
    LET station_col == first_col_by_keys(h, StationKeys)
        cost_col == first_col_by_keys(h, SpendCostKeys)
        impr_col == first_col_by_keys(h, ImpressionKeys)
        creative_col == first_col_by_keys(h, CreativeKeys)
        date_col == first_col_by_keys(h, DateKeys)
        time_col == first_col_by_keys(h, TimeKeys)
        market_col == first_col_by_keys(h, MarketKeys)
        date(row) == IF date_col = NA THEN NaT ELSE coerce_datetime(row[date_col])
    IN [i \in 1..Len(rows) |->
          [Station        |-> fillna(norm_station(rows[i][station_col]), NA, "UNKNOWN"),
           Creative       |-> IF creative_col = NA THEN NA
                              ELSE norm_creative(rows[i][creative_col]),
           Day            |-> day_name(date(rows[i])),
           Hour           |-> IF time_col = NA THEN NaN ELSE coerce_hour(rows[i][time_col]),
           Market         |-> IF market_col = NA THEN NA
                              ELSE norm_market(rows[i][market_col]),
           Cost           |-> fillna(coerce_numeric(rows[i][cost_col]), NaN, 0),
           Impressions    |-> IF impr_col = NA THEN 0
                              ELSE fillna(coerce_numeric(rows[i][impr_col]), NaN, 0),
           RawCost        |-> rows[i][cost_col],
           RawImpressions |-> IF impr_col = NA THEN 0 ELSE rows[i][impr_col]]
          @@ (WeekCol :> week_label_series(date(rows[i])))]

\* groupby(keys, as_index=False).agg(Cost=sum, Impressions=sum): one row per
\* present key, keys ascending
SpendGroup(view, keys, cost, impr) ==
    LET live == {i \in DOMAIN view : HasKey(view[i], keys)}
        members(k) == {i \in live : GroupKey(view[i], keys) = k}
        row(k) == k @@ [Cost        |-> SumSkipNa(view, cost, members(k)),
                        Impressions |-> SumSkipNa(view, impr, members(k))]
    IN SortByKeys({row(GroupKey(view[i], keys)) : i \in live}, keys)

SpendTableNames ==
    {"station", "station_creative", "day", "hour", "station_hour", "market",
     "station_w", "station_creative_w", "day_w", "hour_w", "station_hour_w", "market_w"}
NoSpend == [t \in SpendTableNames |-> <<>>]

\* lines 18-246: [raised, tables]
build_compile_spend(h, rows) ==
    LET impr_col == first_col_by_keys(h, ImpressionKeys)
        has(keys) == first_col_by_keys(h, keys) # NA
        has_creative == has(CreativeKeys)
        has_date == has(DateKeys)
        has_time == has(TimeKeys)
        has_market == has(MarketKeys)
        view == LedgerView(h, rows)
        all_time(keys) == SpendGroup(view, keys, "Cost", "Impressions")
        weekly(keys) == IF has_date
                        THEN SpendGroup(view, keys \o <<WeekCol>>, "Cost", "Impressions")
                        ELSE <<>>
    IN IF ~has(StationKeys)
          \/ ~has(SpendCostKeys)
       THEN [raised |-> "ValueError", tables |-> NoSpend]
       ELSE IF has_date /\ impr_col # NA /\ h[impr_col] # "Impressions"
       THEN [raised |-> "KeyError", tables |-> NoSpend]
       ELSE [raised |-> "",
             tables |->
               [station            |-> all_time(<<"Station">>),
                station_creative   |-> IF has_creative THEN all_time(<<"Station", "Creative">>) ELSE <<>>,
                day                |-> IF has_date THEN all_time(<<"Day">>) ELSE <<>>,
                hour               |-> IF has_time THEN all_time(<<"Hour">>) ELSE <<>>,
                station_hour       |-> IF has_time THEN all_time(<<"Station", "Hour">>) ELSE <<>>,
                market             |-> IF has_market THEN all_time(<<"Market">>) ELSE <<>>,
                station_w          |-> IF has_date
                                       THEN SpendGroup(view, <<"Station", WeekCol>>,
                                                       "RawCost", "RawImpressions")
                                       ELSE <<>>,
                station_creative_w |-> IF has_creative THEN weekly(<<"Station", "Creative">>) ELSE <<>>,
                day_w              |-> weekly(<<"Day">>),
                hour_w             |-> IF has_time THEN weekly(<<"Hour">>) ELSE <<>>,
                station_hour_w     |-> IF has_time THEN weekly(<<"Station", "Hour">>) ELSE <<>>,
                market_w           |-> IF has_market THEN weekly(<<"Market">>) ELSE <<>>]]

(***************************************************************************)
(* performance.py                                                          *)
(***************************************************************************)
\* a variant of hour_to_daypart in which Prime starts at 17
hour_to_daypart_PrimeAt17(hour) ==
    IF hour \in {0, 1} THEN "Late Fringe"
    ELSE IF hour \in {2, 3, 4, 5} THEN "Overnight"
    ELSE IF hour \in {6, 7, 8} THEN "Early Morning"
    ELSE IF hour \in {9, 10, 11, 12, 13, 14, 15, 16} THEN "Daytime"
    ELSE IF hour \in {17, 18, 19, 20, 21, 22, 23} THEN "Prime"
    ELSE "Unknown"

\* lines 17-30
hour_to_daypart(hour) ==
    IF hour \in {0, 1} THEN "Late Fringe"
    ELSE IF hour \in {2, 3, 4, 5} THEN "Overnight"
    ELSE IF hour \in {6, 7, 8} THEN "Early Morning"
    ELSE IF hour \in {9, 10, 11, 12, 13, 14, 15, 16, 17} THEN "Daytime"
    ELSE IF hour \in {18, 19, 20, 21, 22, 23} THEN "Prime"
    ELSE "Unknown"

\* the client_name argument
ClientName == "ACME"

\* a "Cost per X" cell: the quotient Cost / X as a fraction, or NaN
NaNRatio == [num |-> 0, den |-> 0]

\* a variant of Ratio that divides whenever X is not negative
Ratio_NonNegative(cost, x) == IF x >= 0 THEN [num |-> cost, den |-> x] ELSE NaNRatio

\* np.where(X > 0, Cost / X, np.nan)
Ratio(cost, x) == IF x > 0 THEN [num |-> cost, den |-> x] ELSE NaNRatio

CostPer(col) == "Cost per " \o col

\* lines 88-107: the events with Station canonical and the hour, weekday and
\* week of their Timestamp
PrepareEvents(ev) ==
    [i \in 1..Len(ev) |->
       LET ts == coerce_datetime(ev[i].Timestamp)
       IN [Station  |-> fillna(norm_station(ev[i].Station), NA, "UNKNOWN"),
           Creative |-> ev[i].Creative,
           Action   |-> IF "Action" \in DOMAIN ev[i] THEN ev[i].Action ELSE NA,
           Market   |-> ev[i].Market,
           Hour     |-> dt_hour(ts),
           Day      |-> day_name(ts)]
          @@ (WeekCol :> week_label_series(ts))]

\* groupby(keys, as_index=False).size(): the keys, and the size of a key
EventKeys(ev, keys) == {GroupKey(ev[i], keys) : i \in {j \in DOMAIN ev : HasKey(ev[j], keys)}}
EventCount(ev, keys, k) ==
    Cardinality({i \in DOMAIN ev : HasKey(ev[i], keys) /\ GroupKey(ev[i], keys) = k})

\* groupby(keys + ["Action"]).size().pivot(index=keys, columns="Action").fillna(0):
\* the rows counted, the action columns, the keys and the cells
PivotRows(a, keys) == {i \in DOMAIN a : HasKey(a[i], keys \o <<"Action">>)}
PivotLabels(a, keys) == {a[i].Action : i \in PivotRows(a, keys)}
PivotKeys(a, keys) == {GroupKey(a[i], keys) : i \in PivotRows(a, keys)}
PivotCount(a, keys, k, label) ==
    Cardinality({i \in PivotRows(a, keys) : GroupKey(a[i], keys) = k /\ a[i].Action = label})

\* a variant of MergedRows that joins the events onto the spend keys only
\* (how="left")
MergedRows_LeftJoin(keys, spend_w, r, a) ==
    LET ks == {GroupKey(spend_w[j], keys) : j \in DOMAIN spend_w}
        paid(k) == {j \in DOMAIN spend_w : GroupKey(spend_w[j], keys) = k}
        cell(k, col) == spend_w[CHOOSE j \in paid(k) : TRUE][col]
        row(k) == k @@ [Client      |-> ClientName,
                        Cost        |-> cell(k, "Cost"),
                        Impressions |-> cell(k, "Impressions"),
                        Responses   |-> EventCount(r, keys, k)]
                    @@ [l \in PivotLabels(a, keys) |-> PivotCount(a, keys, k, l)]
    IN {row(k) @@ ("Cost per Response" :> Ratio(cell(k, "Cost"), EventCount(r, keys, k))) :
           k \in ks}

\* the merge of a weekly spend table, the response counts and the action
\* pivot on keys, with Client, fillna(0) on the numeric cells and
\* Cost per Response
MergedRows(keys, spend_w, r, a) ==
    LET ks == {GroupKey(spend_w[j], keys) : j \in DOMAIN spend_w}
                \cup EventKeys(r, keys) \cup PivotKeys(a, keys)
        paid(k) == {j \in DOMAIN spend_w : GroupKey(spend_w[j], keys) = k}
        cell(k, col) == IF paid(k) = {} THEN 0 ELSE spend_w[CHOOSE j \in paid(k) : TRUE][col]
        row(k) == k @@ [Client      |-> ClientName,
                        Cost        |-> cell(k, "Cost"),
                        Impressions |-> cell(k, "Impressions"),
                        Responses   |-> EventCount(r, keys, k)]
                    @@ [l \in PivotLabels(a, keys) |-> PivotCount(a, keys, k, l)]
    IN {row(k) @@ ("Cost per Response" :> Ratio(cell(k, "Cost"), EventCount(r, keys, k))) :
           k \in ks}

\* str(c).startswith("Cost per "): the ratio columns a table can have
StartsWithCostPer(c, row) ==
    c = "Cost per Response" \/ c \in {CostPer(x) : x \in DOMAIN row}

\* the columns that are neither fixed nor a "Cost per" column
ActionCols(row, fixed) ==
    {c \in DOMAIN row : c \notin fixed /\ ~StartsWithCostPer(c, row)}

RECURSIVE WithCostPer(_, _)
\* row["Cost per c"] = np.where(row[c] > 0, row.Cost / row[c], nan) for c in cols
WithCostPer(row, cols) ==
    IF cols = {} THEN row
    ELSE LET c == CHOOSE x \in cols : TRUE
         IN WithCostPer((CostPer(c) :> Ratio(row.Cost, row[c])) @@ row, cols \ {c})

\* lines 137-141: Actions_Total, Cost per action and Cost per Actions_Total
WithTotals(row, action_cols) ==
    IF action_cols = {} THEN row
    ELSE LET total == SumOver(row, action_cols)
         IN WithCostPer(("Actions_Total" :> total) @@ row, action_cols \cup {"Actions_Total"})

\* sort_values(["Week Of (Mon)", "Cost"], ascending=[True, False]), stable on
\* rows that arrive in key order
ByWeekThenCost(keys, x, y) ==
    \/ x[WeekCol] < y[WeekCol]
    \/ /\ x[WeekCol] = y[WeekCol]
       /\ \/ x.Cost > y.Cost
          \/ x.Cost = y.Cost /\ KeyLess(keys, x, y)

\* lines 117-144, 146-179 and 382-416: Channel, Channel by Creative, Market
ChannelTable(keys, spend_w, r, a) ==
    LET fixed == Range(keys) \cup {"Client", "Cost", "Responses", "Cost per Response", "Impressions"}
        rows == {WithTotals(row, ActionCols(row, fixed)) : row \in MergedRows(keys, spend_w, r, a)}
    IN SortSetBy(rows, [p \in rows \X rows |-> ByWeekThenCost(keys, p[1], p[2])])

\* a variant of CreativeTable that keeps the first station's row of each
\* (Creative, week) instead of summing over the stations
CreativeTable_FirstStation(channel_by_creative) ==
    LET keys == <<"Creative", WeekCol>>
        cbc == channel_by_creative
        first(k) == CHOOSE i \in DOMAIN cbc :
                       /\ GroupKey(cbc[i], keys) = k
                       /\ \A j \in 1..(i - 1) : GroupKey(cbc[j], keys) # k
        kept(k) == [c \in DOMAIN cbc[first(k)] \ {"Station"} |-> cbc[first(k)][c]]
        rows == {kept(GroupKey(cbc[i], keys)) : i \in DOMAIN cbc}
    IN SortSetBy(rows, [p \in rows \X rows |-> ByWeekThenCost(keys, p[1], p[2])])

\* lines 181-210: Creative, summed from Channel by Creative
CreativeTable(channel_by_creative) ==
    LET keys == <<"Creative", WeekCol>>
        cbc == channel_by_creative
        sum_cols == IF cbc = <<>> THEN {}
                    ELSE ActionCols(cbc[1], {"Station", "Creative", WeekCol, "Client"})
        members(k) == {i \in DOMAIN cbc : GroupKey(cbc[i], keys) = k}
        summed(k) == k @@ [c \in sum_cols |-> SumOver([i \in DOMAIN cbc |-> cbc[i][c]], members(k))]
                       @@ [Client |-> ClientName]
        fixed_base == {"Creative", WeekCol, "Client", "Cost", "Responses", "Impressions"}
        final(row) == LET t == WithTotals(row, ActionCols(row, fixed_base))
                      IN ("Cost per Response" :> Ratio(t.Cost, t.Responses)) @@ t
        rows == {final(summed(GroupKey(cbc[i], keys))) : i \in DOMAIN cbc}
    IN SortSetBy(rows, [p \in rows \X rows |-> ByWeekThenCost(keys, p[1], p[2])])

DayIndex(d) == CHOOSE k \in 1..Len(DayNames) : DayNames[k] = d

\* lines 212-234: Day
DayTable(day_spend_w, r, a) ==
    LET rows == MergedRows(<<"Day", WeekCol>>, day_spend_w, r, a)
    IN SortSetBy(rows, [p \in rows \X rows |->
                          \/ p[1][WeekCol] < p[2][WeekCol]
                          \/ /\ p[1][WeekCol] = p[2][WeekCol]
                             /\ DayIndex(p[1].Day) < DayIndex(p[2].Day)])

\* lines 236-267: Hour
HourTable(hour_spend_w, r, a) ==
    SortByKeys({[Daypart |-> hour_to_daypart(row.Hour)] @@ row :
                   row \in MergedRows(<<"Hour", WeekCol>>, hour_spend_w, r, a)},
               <<WeekCol, "Hour">>)

\* lines 269-311: Channel by Hour
ChannelByHourTable(station_hour_spend_w, r, a) ==
    LET keys == <<"Station", "Hour", WeekCol>>
        fixed == {"Station", "Hour", "Daypart", WeekCol, "Client", "Cost", "Responses",
                  "Cost per Response", "Impressions"}
        dayparted(row) == [Daypart |-> hour_to_daypart(row.Hour)] @@ row
    IN SortByKeys({WithTotals(dayparted(row), ActionCols(dayparted(row), fixed)) :
                      row \in MergedRows(keys, station_hour_spend_w, r, a)},
                  <<WeekCol, "Station", "Hour">>)

\* the six weekly tables and the two detail sheets of the returned dict
WeeklyTables ==
    {"Channel", "Creative", "Channel by Creative", "Day", "Hour", "Channel by Hour"}
DetailSheets == {"Actions", "Response"}

\* lines 352-361: the keys of the dict build_performance_tables returns
PerfTableNames == WeeklyTables \cup DetailSheets
NoPerf == [t \in PerfTableNames |-> <<>>]

\* the tables that carry weekly metrics: the six of perf_tabs and market_df
ReportTables == WeeklyTables \cup {"Market"}

\* lines 119-126, 213-220 and 389-397: with no action row the pivot is the
\* placeholder pd.DataFrame({key: []}), whose columns are float64; if the
\* merge of spend and responses has no row either, both sides of the second
\* merge are empty, their keys are object and float64, and merge raises
\* ValueError
EmptyPivotMerge(keys, spend_w, r, a) ==
    Len(a) = 0 /\ spend_w = <<>> /\ EventKeys(r, keys) = {}

\* lines 243-254: with no hour from any source base_hours is the placeholder
\* pd.DataFrame({"Hour": [], "Week Of (Mon)": []}) and is merged with the
\* empty hour_spend_w
EmptyBaseHours(hour_spend_w, r, a) ==
    LET keys == <<"Hour", WeekCol>>
    IN hour_spend_w = <<>> /\ EventKeys(r, keys) = {} /\ PivotKeys(a, keys) = {}

\* a row without the columns in drop
DropColumns(row, drop) == [c \in DOMAIN row \ drop |-> row[c]]

\* "probability" in c.lower(), on the column names of the model
ContainsProbability(c) == StrLower(c) = "probability"

\* lines 313-350: a detail sheet.  raw_tab is actions_raw / response_raw:
\* the headers of the extract by role and its rows.  The sheet has the
\* events with Station canonical, their hour, weekday and week and the
\* Timestamp renamed, then the raw columns whose lower-case name is new,
\* merged on SourceRowID, without the probability columns, sorted by week
\* and timestamp (missing last, stable)
DetailSheet(ev, raw_tab, ts_col, hour_col, day_col) ==
    LET view == PrepareEvents(ev)
        tmp(i) == (ts_col :> ev[i].Timestamp)
                    @@ (hour_col :> view[i].Hour) @@ (day_col :> view[i].Day)
                    @@ (WeekCol :> view[i][WeekCol])
                    @@ [Station |-> view[i].Station, Creative |-> view[i].Creative]
                    @@ DropColumns(ev[i], {"Timestamp"})
        raw_roles(i) ==
            {k \in DOMAIN raw_tab.h :
                /\ raw_tab.h[k] # NA
                /\ ~ContainsProbability(raw_tab.h[k])
                /\ StrLower(raw_tab.h[k]) \notin {StrLower(c) : c \in DOMAIN tmp(i)}}
        merged(i) ==
            IF raw_tab.rows # <<>> /\ raw_roles(i) # {} /\ "SourceRowID" \in DOMAIN tmp(i)
            THEN tmp(i) @@ [c \in {raw_tab.h[k] : k \in raw_roles(i)} |->
                              raw_tab.rows[tmp(i).SourceRowID + 1]
                                      [CHOOSE k \in raw_roles(i) : raw_tab.h[k] = c]]
            ELSE tmp(i)
        sheet(i) == DropColumns(merged(i), {c \in DOMAIN merged(i) :
                                               ContainsProbability(c)})
        week(i) == view[i][WeekCol]
        before(i, j) ==
            \/ week(i) # NaN /\ week(j) = NaN
            \/ /\ (week(i) = NaN) = (week(j) = NaN)
               /\ \/ week(i) < week(j)
                  \/ /\ week(i) = week(j)
                     /\ \/ ev[i].Timestamp # NaT /\ ev[j].Timestamp = NaT
                        \/ /\ (ev[i].Timestamp = NaT) = (ev[j].Timestamp = NaT)
                           /\ \/ ev[i].Timestamp < ev[j].Timestamp
                              \/ ev[i].Timestamp = ev[j].Timestamp /\ i < j
        order == SortSetBy(DOMAIN ev, [p \in (DOMAIN ev) \X (DOMAIN ev) |-> before(p[1], p[2])])
    IN [k \in DOMAIN ev |-> sheet(order[k])]

\* lines 78-361: [raised, tables], the eight returned tables by sheet name
build_performance_tables(actions, responses, tables, actions_raw, responses_raw) ==
    LET a == PrepareEvents(actions)
        r == PrepareEvents(responses)
        channel_by_creative ==
            ChannelTable(<<"Station", "Creative", WeekCol>>, tables.station_creative_w, r, a)
    IN IF \/ EmptyPivotMerge(<<"Station", WeekCol>>, tables.station_w, r, a)
          \/ EmptyPivotMerge(<<"Day", WeekCol>>, tables.day_w, r, a)
          \/ EmptyBaseHours(tables.hour_w, r, a)
       THEN [raised |-> "ValueError", tables |-> NoPerf]
       ELSE [raised |-> "",
             tables |->
               ("Channel" :> ChannelTable(<<"Station", WeekCol>>, tables.station_w, r, a))
               @@ ("Channel by Creative" :> channel_by_creative)
               @@ ("Creative" :> CreativeTable(channel_by_creative))
               @@ ("Day" :> DayTable(tables.day_w, r, a))
               @@ ("Hour" :> HourTable(tables.hour_w, r, a))
               @@ ("Channel by Hour" :> ChannelByHourTable(tables.station_hour_w, r, a))
               @@ ("Actions" :> DetailSheet(actions, actions_raw, "ActionTimestamp",
                                            "ActionHour", "ActionWeekday"))
               @@ ("Response" :> DetailSheet(responses, responses_raw, "VisitTimestamp",
                                             "VisitHour", "VisitWeekday"))]

\* lines 364-417: [raised, table], the Market table of events that have a
\* Market column
build_market_table(actions, responses, tables) ==
    LET a == PrepareEvents(actions)
        r == PrepareEvents(responses)
        keys == <<"Market", WeekCol>>
    IN IF EmptyPivotMerge(keys, tables.market_w, r, a)
       THEN [raised |-> "ValueError", table |-> <<>>]
       ELSE [raised |-> "", table |-> ChannelTable(keys, tables.market_w, r, a)]

\* perf_tabs and market_df as one function of the sheet name
AllTables(perf_tabs, market) == perf_tabs @@ ("Market" :> market)

(***************************************************************************)
(* performance.py: _reorder_metrics, the column order of a table           *)
(***************************************************************************)
\* pivot(columns="Action"): the label columns in sorted order
LabelColumns(labels) ==
    SortSetBy(labels, [p \in labels \X labels |-> StrLess(p[1], p[2])])

\* the members of seq that are in the set cols, in the order of seq
Present(seq, cols) ==
    LET In(c) == c \in cols
    IN SelectSeq(seq, In)

\* [f(s[1]), ..., f(s[n])] for a function f
MapSeq(f, s) == [i \in 1..Len(s) |-> f[s[i]]]

\* the columns of a merged table in the order the merge and the later
\* assignments create them: keys, spend, responses, pivot labels, Client,
\* Daypart, Cost per Response, Actions_Total and the per-action ratios
ArrivalColumns(row, keys) ==
    LET fixed == Range(keys) \cup {"Client", "Daypart", "Cost", "Responses",
                                   "Cost per Response", "Impressions"}
        labels == LabelColumns(ActionCols(row, fixed \cup {"Actions_Total"}))
    IN Present(keys \o <<"Cost", "Impressions", "Responses">> \o labels
                 \o <<"Client", "Daypart", "Cost per Response", "Actions_Total">>
                 \o MapSeq([l \in Range(labels) |-> CostPer(l)], labels)
                 \o <<"Cost per Actions_Total">>,
               DOMAIN row)

\* lines 33-75: cols are the columns as they arrive
reorder_metrics(cols, id_cols) ==
    LET base == <<"Cost", "Responses", "Cost per Response">>
        tail == <<"Actions_Total", "Cost per Actions_Total", "Impressions">>
        fixed_names == {"Client", WeekCol} \cup Range(id_cols) \cup Range(base) \cup Range(tail)
        names == Range(cols)
        cost_per == {c \in names : c = "Cost per Response" \/ \E x \in names : c = CostPer(x)}
        unsorted == {c \in names : c \notin fixed_names /\ c \notin cost_per}
        position(c) == CHOOSE k \in DOMAIN cols : cols[k] = c
        \* sorted(key=lower) is stable: equal keys stay in arrival order
        action_cols ==
            SortSetBy(unsorted,
                      [p \in unsorted \X unsorted |->
                          \/ StrLess(StrLower(p[1]), StrLower(p[2]))
                          \/ /\ StrLower(p[1]) = StrLower(p[2])
                             /\ position(p[1]) < position(p[2])])
        with_ratio(a) == IF CostPer(a) \in names THEN <<a, CostPer(a)>> ELSE <<a>>
        pairs[k \in 0..Len(action_cols)] ==
            IF k = 0 THEN <<>> ELSE pairs[k - 1] \o with_ratio(action_cols[k])
        ordered == Present(<<"Client">>, names)
                     \o Present(SelectSeq(id_cols, LAMBDA c : c \notin {"Client", WeekCol}), names)
                     \o Present(base, names)
                     \o pairs[Len(action_cols)]
                     \o Present(tail, names)
                     \o Present(<<WeekCol>>, names)
        remaining == SelectSeq(cols, LAMBDA c : c \notin Range(ordered))
    IN ordered \o remaining

\* the id_cols each table is reordered with, and its key columns
IdColumns(t) ==
    CASE t = "Channel" -> <<"Station">>
      [] t = "Channel by Creative" -> <<"Station", "Creative">>
      [] t = "Creative" -> <<"Creative">>
      [] t = "Day" -> <<"Day">>
      [] t = "Hour" -> <<"Hour", "Daypart">>
      [] t = "Channel by Hour" -> <<"Station", "Hour", "Daypart">>
      [] t = "Market" -> <<"Market">>

TableKeys(t) ==
    CASE t = "Channel" -> <<"Station", WeekCol>>
      [] t = "Channel by Creative" -> <<"Station", "Creative", WeekCol>>
      [] t = "Creative" -> <<"Creative", WeekCol>>
      [] t = "Day" -> <<"Day", WeekCol>>
      [] t = "Hour" -> <<"Hour", WeekCol>>
      [] t = "Channel by Hour" -> <<"Station", "Hour", WeekCol>>
      [] t = "Market" -> <<"Market", WeekCol>>

NoColumns == [t \in ReportTables |-> <<>>]

\* the column order of every table that has rows
TableColumns(tabs) ==
    [t \in ReportTables |->
        IF tabs[t] = <<>> THEN <<>>
        ELSE reorder_metrics(ArrivalColumns(tabs[t][1], TableKeys(t)), IdColumns(t))]

(***************************************************************************)
(* revenue_ext.py: inject_action_revenue                                   *)
(***************************************************************************)
\* lines 164-167, 198, 210, 222: the actions with their week, day and hour
RevenueEvents(actions, revenue) ==
    [i \in DOMAIN actions |->
       LET ts == coerce_datetime(actions[i].Timestamp)
       IN [Station  |-> actions[i].Station,
           Creative |-> actions[i].Creative,
           Market   |-> actions[i].Market,
           Hour     |-> dt_hour(ts),
           Day      |-> day_name(ts),
           TotalActionRevenue |-> revenue[i]]
          @@ (WeekCol :> week_label_series(ts))]

\* lines 139-161: subset is the rows of ev passed as actions_subset
add_revenue_metrics(table, group_cols, ev, subset) ==
    [i \in DOMAIN table |->
       LET row == table[i]
           matched == {j \in subset : /\ HasKey(ev[j], group_cols)
                                      /\ GroupKey(ev[j], group_cols) = GroupKey(row, group_cols)}
           action_revenue ==
               IF subset = {} THEN 0
               ELSE SumOver([j \in DOMAIN ev |-> ev[j].TotalActionRevenue], matched)
           roi == IF subset # {} /\ row.Cost > 0
                  THEN [num |-> action_revenue, den |-> row.Cost]
                  ELSE NaNRatio
       IN ("Action Revenue" :> action_revenue) @@ ("ROI" :> roi) @@ row]

\* the columns whose notna() mask selects actions_subset for a table
SubsetColumns(t) ==
    CASE t = "Channel" -> {"Station"}
      [] t = "Channel by Creative" -> {"Station", "Creative"}
      [] t = "Creative" -> {"Creative"}
      [] t = "Day" -> {"Day"}
      [] t = "Hour" -> {"Hour"}
      [] t = "Channel by Hour" -> {"Station", "Hour"}
      [] t = "Market" -> {"Market"}

\* lines 123-134: the early returns
RevenueInjected(tabs, has_revenue, revenue, revenue_mode) ==
    /\ revenue_mode # "off"
    /\ has_revenue
    /\ SumOver(revenue, DOMAIN revenue) # 0

\* the tables that receive the two columns (line 232: Market only if not empty)
InjectedTables(tabs) == {t \in ReportTables : t # "Market" \/ tabs[t] # <<>>}

\* lines 107-239: [perf_tabs, market_df] after injection; the detail
\* sheets are returned as they came
inject_action_revenue(perf_tabs, market, actions, has_revenue, revenue, revenue_mode) ==
    LET tabs == AllTables(perf_tabs, market)
        ev == RevenueEvents(actions, revenue)
        out(t) == IF t \notin InjectedTables(tabs) THEN tabs[t]
                  ELSE add_revenue_metrics(tabs[t], TableKeys(t), ev,
                         {j \in DOMAIN ev : \A c \in SubsetColumns(t) : ev[j][c] # Missing(c)})
    IN IF ~RevenueInjected(tabs, has_revenue, revenue, revenue_mode)
       THEN [perf_tabs |-> perf_tabs, market_df |-> market]
       ELSE [perf_tabs |-> [t \in DOMAIN perf_tabs |-> out(t)],
             market_df |-> out("Market")]

\* the column order after injection: the merge and the ROI assignment append
inject_action_revenue_columns(tabs, cols, has_revenue, revenue, revenue_mode) ==
    IF ~RevenueInjected(tabs, has_revenue, revenue, revenue_mode) THEN cols
    ELSE [t \in ReportTables |->
            IF t \in InjectedTables(tabs) /\ tabs[t] # <<>>
            THEN cols[t] \o <<"Action Revenue", "ROI">>
            ELSE cols[t]]

(***************************************************************************)
(* mapping.py: map_actions and map_response.  A raw table is its headers   *)
(* h, by column, and its rows; an absent column has the header NA.         *)
(***************************************************************************)
SessionKeys == <<"usersessionid", "sessionid", "session_id", "sid">>
ActionLabelKeys == <<"action", "event", "type", "actionname", "action_name", "actiontype">>
ProbabilityKeys ==
    <<"actionprobability", "actionsessionprobability", "probability", "score", "prob">>
StationCandidates == <<"tadspotschannel", "network", "station", "channel">>
EventCreativeKeys == <<"creative", "adcreative", "ad_creative", "creative_name", "spot">>
ActionMarketKeys ==
    <<"t_adspots_market", "market", "t adspots market", "tadspotsmarket", "region">>
ResponseMarketKeys == <<"t_adspots_market", "tadspotsmarket", "market", "region">>
RevenueKeys ==
    <<"totalactionrevenue", "actionrevenue", "total_revenue", "totalactionsrevenue",
      "grossrevenue", "revenue">>
ActionTimePriority ==
    <<"actiondatetime", "visitdatetime", "timestamp", "datetime", "date", "time">>
ResponseTimePriority == <<"visitdatetime", "timestamp", "datetime", "date", "time">>
EventDateKeys ==
    <<"date", "visitdate", "actiondate", "datevisited", "date_aired", "dateaired">>
EventTimeKeys == <<"time", "visittime", "actiontime", "time_aired", "timeaired">>

\* lines 17-28: the station-like column with the most non-null cells, the
\* first such candidate on a tie
choose_station_series(h, rows) ==
    LET candidates == SelectSeq(StationCandidates, LAMBDA k : k \in cols_norm(h))
        count(k) == Cardinality({i \in DOMAIN rows : rows[i][ColumnOf(h, candidates[k])] # NA})
        best == CHOOSE k \in DOMAIN candidates :
                   \A j \in DOMAIN candidates :
                      count(j) < count(k) \/ (count(j) = count(k) /\ k <= j)
    IN IF candidates = <<>> THEN [i \in DOMAIN rows |-> NA]
       ELSE [i \in DOMAIN rows |-> rows[i][ColumnOf(h, candidates[best])]]

\* line 45: the date and the time of day read as one text; a missing half
\* leaves a text that is no timestamp
Stitch(date, time) == IF date = NaT \/ time = NaT THEN NaT ELSE date + time

\* lines 31-52
pick_timestamp(h, rows, priority) ==
    LET date_key == first_col_by_keys(h, EventDateKeys)
        time_key == first_col_by_keys(h, EventTimeKeys)
        first == first_col_by_keys(h, priority)
    IN IF first # NA THEN [i \in DOMAIN rows |-> coerce_datetime(rows[i][first])]
       ELSE IF date_key # NA /\ time_key # NA
       THEN [i \in DOMAIN rows |->
               coerce_datetime(Stitch(rows[i][date_key], rows[i][time_key]))]
       ELSE IF date_key # NA
       THEN [i \in DOMAIN rows |-> coerce_datetime(rows[i][date_key])]
       ELSE [i \in DOMAIN rows |-> NaT]

\* lines 91-93: strip, then national / national cable / national network in
\* any case to National
map_market(s) ==
    IF s = NA THEN NA
    ELSE LET t == StrStrip(s)
         IN IF t \in {"National", "national", "National Cable", "national cable",
                      "National Network", "national network"}
            THEN "National" ELSE t

\* a column that is added only if its header was found
OptionalColumn(name, col, cells) ==
    IF col = NA THEN <<>> ELSE (name :> cells)

\* lines 55-104: [raised, rows]
map_actions(h, rows) ==
    LET sid_col == first_col_by_keys(h, SessionKeys)
        act_col == first_col_by_keys(h, ActionLabelKeys)
        prob_col == first_col_by_keys(h, ProbabilityKeys)
        station_series == choose_station_series(h, rows)
        ts == pick_timestamp(h, rows, ActionTimePriority)
        creative_col == first_col_by_keys(h, EventCreativeKeys)
        market_col == first_col_by_keys(h, ActionMarketKeys)
        rev_col == first_col_by_keys(h, RevenueKeys)
        out(i) ==
            [SessionID   |-> rows[i][sid_col],
             Action      |-> rows[i][act_col],
             Station     |-> fillna(norm_station(station_series[i]), NA, "UNKNOWN"),
             Timestamp   |-> ts[i],
             Probability |-> IF prob_col = NA THEN NegInf
                             ELSE fillna(coerce_numeric(rows[i][prob_col]), NaN, NegInf)]
              @@ OptionalColumn("Creative", creative_col,
                                IF creative_col = NA THEN NA ELSE rows[i][creative_col])
              @@ OptionalColumn("Market", market_col,
                                IF market_col = NA THEN NA ELSE map_market(rows[i][market_col]))
              @@ OptionalColumn("TotalActionRevenue", rev_col,
                                IF rev_col = NA THEN 0
                                ELSE fillna(coerce_numeric(rows[i][rev_col]), NaN, 0))
    IN IF sid_col = NA \/ act_col = NA
       THEN [raised |-> "ValueError", rows |-> <<>>]
       ELSE [raised |-> "", rows |-> [i \in DOMAIN rows |-> out(i)]]

\* a variant of map_response that maps the responses with the actions
\* mapper, which also requires an Action header
map_response_NeedsAction(h, rows) ==
    LET r == map_actions(h, rows)
    IN [raised |-> r.raised, rows |-> r.rows]

\* lines 107-136: [raised, rows]
map_response(h, rows) ==
    LET sid_col == first_col_by_keys(h, SessionKeys)
        station_series == choose_station_series(h, rows)
        ts == pick_timestamp(h, rows, ResponseTimePriority)
        creative_col == first_col_by_keys(h, EventCreativeKeys)
        market_col == first_col_by_keys(h, ResponseMarketKeys)
        out(i) ==
            [SessionID |-> rows[i][sid_col],
             Station   |-> fillna(norm_station(station_series[i]), NA, "UNKNOWN"),
             Timestamp |-> ts[i]]
              @@ OptionalColumn("Creative", creative_col,
                                IF creative_col = NA THEN NA ELSE rows[i][creative_col])
              @@ OptionalColumn("Market", market_col,
                                IF market_col = NA THEN NA ELSE map_market(rows[i][market_col]))
    IN IF sid_col = NA
       THEN [raised |-> "ValueError", rows |-> <<>>]
       ELSE [raised |-> "", rows |-> [i \in DOMAIN rows |-> out(i)]]

(***************************************************************************)
(* The columns of the actions on their way from map_actions through        *)
(* dedupe_actions and attach_action_revenue to inject_action_revenue.      *)
(***************************************************************************)
\* mapping.py lines 74-102: the columns of the mapped actions, in order
map_actions_columns(h) ==
    <<"SessionID", "Action", "Station", "Timestamp", "Probability">>
      \o (IF first_col_by_keys(h, EventCreativeKeys) = NA THEN <<>> ELSE <<"Creative">>)
      \o (IF first_col_by_keys(h, ActionMarketKeys) = NA THEN <<>> ELSE <<"Market">>)
      \o (IF first_col_by_keys(h, RevenueKeys) = NA THEN <<>>
          ELSE <<"TotalActionRevenue">>)

\* dedupe.py lines 51-55 and 93-100: the output keeps the columns of the copy
\* and gains SourceRowID; the scratch column __order is dropped only when a
\* row was kept
dedupe_actions_columns(cols, n) ==
    IF n = 0 THEN cols \o <<"__order", "SourceRowID">>
    ELSE cols \o <<"SourceRowID">>

\* DataFrame.merge: a column that both sides have and that is not a key is
\* kept twice, with the suffixes _x (left) and _y (right)
merge_columns(left, right, on) ==
    LET overlap == (Range(left) \cap Range(right)) \ on
        suffixed(seq, sfx) ==
            [i \in DOMAIN seq |-> IF seq[i] \in overlap THEN seq[i] \o sfx ELSE seq[i]]
    IN suffixed(left, "_x")
         \o suffixed(SelectSeq(right, LAMBDA c : c \notin on), "_y")

\* a merge that would replace the column both sides have instead of
\* suffixing it: the returned actions would keep a column named
\* TotalActionRevenue
attach_action_revenue_columns_NoSuffix(mapped_cols, dedup_cols, revenue_mode) ==
    dedup_cols

\* revenue_ext.py lines 49-104: the columns of the returned actions
attach_action_revenue_columns(mapped_cols, dedup_cols, revenue_mode) ==
    LET has_revenue == "TotalActionRevenue" \in Range(mapped_cols)
    IN IF revenue_mode = "off" THEN dedup_cols
       ELSE IF ~has_revenue THEN dedup_cols
       ELSE IF "SourceRowID" \notin Range(dedup_cols) THEN dedup_cols
       ELSE merge_columns(dedup_cols, <<"TotalActionRevenue", "SourceRowID">>,
                          {"SourceRowID"})

\* revenue_ext.py lines 49-104: the returned actions.  The lookup is the
\* TotalActionRevenue column of the mapped rows with their index as
\* SourceRowID; the left merge on SourceRowID suffixes a column both sides
\* have, and the fillna(0) applies to a column named TotalActionRevenue only.
attach_action_revenue(actions_mapped, dedup_rows, mapped_cols, dedup_cols, revenue_mode) ==
    IF attach_action_revenue_columns(mapped_cols, dedup_cols, revenue_mode) = dedup_cols
    THEN dedup_rows
    ELSE [k \in DOMAIN dedup_rows |->
            LET row == dedup_rows[k]
                lookup == actions_mapped[row.SourceRowID + 1].TotalActionRevenue
            IN IF "TotalActionRevenue" \in DOMAIN row
               THEN ("TotalActionRevenue_x" :> row.TotalActionRevenue)
                      @@ ("TotalActionRevenue_y" :> lookup)
                      @@ [c \in DOMAIN row \ {"TotalActionRevenue"} |-> row[c]]
               ELSE ("TotalActionRevenue" :> IF lookup = NaN THEN 0 ELSE lookup) @@ row]

(***************************************************************************)
(* The deduplication machine: a table is loaded row by row, then one of    *)
(* the two functions is called on it.                                      *)
(***************************************************************************)
NoStats == [groups |-> 0]
\* main has not returned
NoExit == -1
NoRawHeaders ==
    [sid |-> NA, action |-> NA, probability |-> NA, network |-> NA, station |-> NA,
     timestamp |-> NA, date |-> NA, time |-> NA, creative |-> NA, market |-> NA,
     revenue |-> NA]
NoHeaders ==
    [station |-> NA, cost |-> NA, spots |-> NA, impressions |-> NA,
     creative |-> NA, date |-> NA, time |-> NA, market |-> NA]
\* actions_raw=None / response_raw=None
NoRaw == [h |-> NoRawHeaders, rows |-> <<>>]

IdleDedupe == df = <<>> /\ mode = "" /\ top3 = <<>> /\ deduped = <<>> /\ stats = NoStats
IdleCompile == hdr = NoHeaders /\ compile = <<>>
IdleRank == rank_table = <<>> /\ rank_top3 = <<>>
IdleHour == hour_in = NoCell /\ hour_out = NaN
IdlePerf ==
    /\ actions_dedup = <<>> /\ response_dedup = <<>> /\ spend = NoSpend /\ perf = NoPerf
    /\ market_df = <<>> /\ columns = NoColumns
IdleMap == raw_hdr = NoRawHeaders /\ raw = <<>> /\ mapped = <<>>
IdleRev ==
    action_rev_mode = "" /\ actions_m_columns = <<>> /\ actions_dedup_columns = <<>>
\* no tab selected, none gone through
NoPush == [frames |-> {}, done |-> 0]

IdleMain ==
    /\ completed = <<>> /\ written = <<>> /\ exit_code = NoExit
    /\ response_hdr = NoRawHeaders /\ response_raw = <<>>
    /\ pushed = NoPush

Init ==
    /\ pc \in {"load_actions", "load_response"}
    /\ raised = ""
    /\ IdleDedupe /\ IdleCompile /\ IdleRank /\ IdleHour /\ IdlePerf /\ IdleMap
    /\ IdleRev /\ IdleMain

AddActionRow ==
    /\ pc = "load_actions"
    /\ Len(df) < MaxRows
    /\ \E row \in MappedRows : df' = Append(df, row)
    /\ UNCHANGED <<pc, raised, mode, top3, deduped, stats, compileVars, rankVars, hourVars, perfVars, mapVars, revVars, mainVars>>

AddResponseRow ==
    /\ pc \in {"load_response", "load_modes_response"}
    /\ Len(df) < MaxRows
    /\ \E row \in ResponseRows : df' = Append(df, row)
    /\ UNCHANGED <<pc, raised, mode, top3, deduped, stats, compileVars, rankVars, hourVars, perfVars, mapVars, revVars, mainVars>>

DedupeActions ==
    /\ pc \in {"load_actions", "load_modes"}
    /\ \E m \in Modes, t \in Top3Tables :
         LET r == dedupe_actions(df, t, m)
         IN /\ mode' = m
            /\ top3' = t
            /\ deduped' = r.rows
            /\ stats' = r.stats
    /\ pc' = IF pc = "load_actions" THEN "actions" ELSE "modes"
    /\ UNCHANGED <<df, raised, compileVars, rankVars, hourVars, perfVars, mapVars, revVars, mainVars>>

DedupeResponse ==
    /\ pc \in {"load_response", "load_modes_response"}
    /\ LET r == dedupe_response(df)
       IN /\ deduped' = r.rows
          /\ stats' = r.stats
          /\ raised' = r.raised
    /\ pc' = IF pc = "load_response" THEN "response" ELSE "modes_response"
    /\ UNCHANGED <<df, mode, top3, compileVars, rankVars, hourVars, perfVars, mapVars, revVars, mainVars>>

Next == AddActionRow \/ AddResponseRow \/ DedupeActions \/ DedupeResponse

Spec == Init /\ [][Next]_vars

(***************************************************************************)
(* The modes machine: mapped actions of one session, some of them without   *)
(* an Action label, or mapped responses, are loaded row by row and         *)
(* deduplicated; the function is then called again on the table it         *)
(* returned.                                                               *)
(***************************************************************************)
ModeRows ==
    [SessionID : {"S1"}, Action : {"Click", "Buy", NA}, Station : RawStations,
     Timestamp : {NaT, 1}, Probability : {NaN, 1, 2}]

InitModes ==
    /\ pc \in {"load_modes", "load_modes_response"}
    /\ raised = ""
    /\ IdleDedupe /\ IdleCompile /\ IdleRank /\ IdleHour /\ IdlePerf /\ IdleMap
    /\ IdleRev /\ IdleMain

AddModeRow ==
    /\ pc = "load_modes"
    /\ Len(df) < MaxRows
    /\ \E row \in ModeRows : df' = Append(df, row)
    /\ UNCHANGED <<pc, raised, mode, top3, deduped, stats, compileVars, rankVars, hourVars,
                   perfVars, mapVars, revVars, mainVars>>

\* dedupe_actions on its own output, with the same mode and top-3 table;
\* df becomes the table passed in
DedupeActionsAgain ==
    /\ pc = "modes"
    /\ LET r == dedupe_actions(deduped, top3, mode)
       IN /\ df' = deduped
          /\ deduped' = r.rows
          /\ stats' = r.stats
    /\ pc' = "modes_again"
    /\ UNCHANGED <<raised, mode, top3, compileVars, rankVars, hourVars, perfVars, mapVars,
                   revVars, mainVars>>

\* dedupe_response on its own output, if the first call returned one
DedupeResponseAgain ==
    /\ pc = "modes_response"
    /\ raised = ""
    /\ LET r == dedupe_response(deduped)
       IN /\ df' = deduped
          /\ deduped' = r.rows
          /\ stats' = r.stats
          /\ raised' = r.raised
    /\ pc' = "modes_response_again"
    /\ UNCHANGED <<mode, top3, compileVars, rankVars, hourVars, perfVars, mapVars,
                   revVars, mainVars>>

NextModes ==
    \/ AddModeRow \/ AddResponseRow \/ DedupeActions \/ DedupeResponse
    \/ DedupeActionsAgain \/ DedupeResponseAgain

SpecModes == InitModes /\ [][NextModes]_vars

(***************************************************************************)
(* The ranking machine: a compile ledger is loaded row by row, then        *)
(* build_station_priority is called on it.                                 *)
(***************************************************************************)
\* ledgers with a station column, one cost column and possibly a spot column
RankLayouts ==
    {[NoHeaders EXCEPT !.station = "Station", !.cost = c, !.spots = sp] :
        c \in {"Cost", "Gross", "Client Gross Amt"}, sp \in {"Spots", NA}}
      \cup {[NoHeaders EXCEPT !.station = "Station"], [NoHeaders EXCEPT !.cost = "Cost"]}

LedgerStations == {"WABC", "wabc ", "WNBC"}
CostCells == {NaN, 500, 1000}
SpotCells == {NaN, 1, 2, 4}

\* the cell of an absent column is missing
NoLedgerRow ==
    [station |-> NA, cost |-> NaN, spots |-> NaN, impressions |-> NaN,
     creative |-> NA, date |-> NaT, time |-> NoCell, market |-> NA]

RankLedgerRows(h) ==
    {[NoLedgerRow EXCEPT !.station = s, !.cost = c, !.spots = sp] :
        s \in IF h.station = NA THEN {NA} ELSE LedgerStations,
        c \in IF h.cost = NA THEN {NaN} ELSE CostCells,
        sp \in IF h.spots = NA THEN {NaN} ELSE SpotCells}

InitRank ==
    /\ pc = "load_compile"
    /\ raised = ""
    /\ hdr \in RankLayouts
    /\ compile = <<>>
    /\ IdleDedupe /\ IdleRank /\ IdleHour /\ IdlePerf /\ IdleMap
    /\ IdleRev /\ IdleMain

AddRankLedgerRow ==
    /\ pc = "load_compile"
    /\ Len(compile) < MaxLedgerRows
    /\ \E row \in RankLedgerRows(hdr) : compile' = Append(compile, row)
    /\ UNCHANGED <<pc, raised, hdr, dedupeVars, rankVars, hourVars, perfVars, mapVars, revVars, mainVars>>

BuildStationPriority ==
    /\ pc = "load_compile"
    /\ \E r \in {build_station_priority(hdr, compile)} :
          /\ raised' = r.raised
          /\ rank_table' = r.rankable
          /\ rank_top3' = r.top3
    /\ pc' = "ranked"
    /\ UNCHANGED <<compileVars, dedupeVars, hourVars, perfVars, mapVars, revVars, mainVars>>

NextRank == AddRankLedgerRow \/ BuildStationPriority

SpecRank == InitRank /\ [][NextRank]_vars


(***************************************************************************)
(* The hour machine: coerce_hour_series is called on a series of one cell. *)
(***************************************************************************)
Hours == 0..23
\* numbers in hundredths: day fractions, whole numbers below 100,
\* HHMM values (every hour at :00 and :30, and 23:59), and 2400
HourNumbers ==
    {0, 25, 50, 75, 99} \cup {100, 1200, 9900}
      \cup {(h * 100 + m) * Hundredths : h \in 1..23, m \in {0, 30}}
      \cup {2359 * Hundredths, 2400 * Hundredths}

HourCells ==
    [kind : {"number", "numtext"}, v : HourNumbers]
      \cup [kind : {"timetext", "timeobj"}, v : Hours]
      \cup {[kind |-> "junk", v |-> 0], NoCell}

InitHour ==
    /\ pc = "hour_input"
    /\ raised = ""
    /\ hour_in \in HourCells
    /\ hour_out = NaN
    /\ IdleDedupe /\ IdleCompile /\ IdleRank /\ IdlePerf /\ IdleMap
    /\ IdleRev /\ IdleMain

CoerceHour ==
    /\ pc = "hour_input"
    /\ hour_out' = coerce_hour(hour_in)
    /\ pc' = "hour_done"
    /\ UNCHANGED <<raised, hour_in, dedupeVars, compileVars, rankVars, perfVars, mapVars, revVars, mainVars>>

NextHour == CoerceHour

SpecHour == InitHour /\ [][NextHour]_vars

(***************************************************************************)
(* The performance machine: a compile ledger, deduplicated actions and     *)
(* deduplicated responses are loaded row by row, then the spend tables,    *)
(* the performance tables and the Market table are built (auto6.py).       *)
(***************************************************************************)
\* a ledger that has every column the spend tables read
PerfLayout ==
    [NoHeaders EXCEPT !.station = "Station", !.cost = "Cost",
                      !.impressions = "Impressions", !.creative = "Creative",
                      !.date = "Date", !.time = "Time", !.market = "Market"]

\* a blank cost cell, a spend and a credit; no date or the first Monday;
\* every spot aired at 09:00
PerfLedgerRows ==
    {[NoLedgerRow EXCEPT !.station = s, !.cost = c, !.impressions = 10,
                         !.creative = "spot a", !.date = d,
                         !.time = [kind |-> "timetext", v |-> 9], !.market = "NY"] :
        s \in {"WABC", "WNBC"}, c \in {NaN, 500, -50}, d \in {NaT, 0}}

\* no timestamp, Monday 09:00 of the first week, Tuesday 20:00 of the second
PerfTimestamps == {NaT, 9, 212}

PerfActionRows ==
    [Station : {"WABC"}, Action : {"Click", "Buy"}, Creative : {NA, "SPOT A"},
     Timestamp : PerfTimestamps, Market : {"NY"}]

PerfResponseRows ==
    [Station : {"WABC"}, Creative : {NA, "SPOT A"}, Timestamp : PerfTimestamps,
     Market : {"NY"}]

InitPerf ==
    /\ pc = "load_perf"
    /\ raised = ""
    /\ hdr = PerfLayout
    /\ compile = <<>>
    /\ actions_dedup = <<>> /\ response_dedup = <<>>
    /\ spend = NoSpend /\ perf = NoPerf /\ market_df = <<>> /\ columns = NoColumns
    /\ IdleDedupe /\ IdleRank /\ IdleHour /\ IdleMap
    /\ IdleRev /\ IdleMain

PerfRowsLoaded == Len(compile) + Len(actions_dedup) + Len(response_dedup)

AddPerfLedgerRow ==
    /\ pc = "load_perf"
    /\ PerfRowsLoaded < MaxPerfRows
    /\ actions_dedup = <<>> /\ response_dedup = <<>>
    /\ \E row \in PerfLedgerRows : compile' = Append(compile, row)
    /\ UNCHANGED <<pc, raised, hdr, actions_dedup, response_dedup, spend, perf, market_df, columns,
                   dedupeVars, rankVars, hourVars, mapVars, revVars, mainVars>>

AddPerfAction ==
    /\ pc = "load_perf"
    /\ PerfRowsLoaded < MaxPerfRows
    /\ response_dedup = <<>>
    /\ \E row \in PerfActionRows : actions_dedup' = Append(actions_dedup, row)
    /\ UNCHANGED <<pc, raised, compileVars, response_dedup, spend, perf, market_df, columns,
                   dedupeVars, rankVars, hourVars, mapVars, revVars, mainVars>>

AddPerfResponse ==
    /\ pc = "load_perf"
    /\ PerfRowsLoaded < MaxPerfRows
    /\ \E row \in PerfResponseRows : response_dedup' = Append(response_dedup, row)
    /\ UNCHANGED <<pc, raised, compileVars, actions_dedup, spend, perf, market_df, columns,
                   dedupeVars, rankVars, hourVars, mapVars, revVars, mainVars>>

\* auto6.py lines 141-143: build_compile_spend runs inside
\* build_performance_tables first; an exception of either builder ends the
\* stage
BuildPerformanceTables ==
    /\ pc = "load_perf"
    /\ \E s \in {build_compile_spend(hdr, compile)} :
       \E p \in {IF s.raised # "" THEN [raised |-> s.raised, tables |-> NoPerf]
                 ELSE build_performance_tables(actions_dedup, response_dedup, s.tables,
                                               NoRaw, NoRaw)} :
       \E m \in {IF p.raised # "" THEN [raised |-> p.raised, table |-> <<>>]
                 ELSE build_market_table(actions_dedup, response_dedup, s.tables)} :
          /\ raised' = m.raised
          /\ spend' = s.tables
          /\ perf' = p.tables
          /\ market_df' = m.table
          /\ columns' = TableColumns(AllTables(p.tables, m.table))
    /\ pc' = "perf_done"
    /\ UNCHANGED <<compileVars, actions_dedup, response_dedup, dedupeVars, rankVars, hourVars, mapVars, revVars, mainVars>>

\* the revenue of an action row, and the mode selector
RevenueCells == {0, 25}
RevenueModes == {"off", "on", "auto"}

\* the headers of the actions extract behind actions_dedup: with or without
\* a revenue column
ActionExtractHeaders ==
    {[NoRawHeaders EXCEPT !.sid = "Session ID", !.action = "Event",
                          !.station = "Station", !.timestamp = "Timestamp",
                          !.creative = "Creative", !.market = "Market",
                          !.revenue = r] : r \in {NA, "Revenue"}}

NextPerf ==
    \/ AddPerfLedgerRow \/ AddPerfAction \/ AddPerfResponse
    \/ BuildPerformanceTables

SpecPerf == InitPerf /\ [][NextPerf]_vars

(***************************************************************************)
(* The mapper machine: a raw extract with some layout of headers is loaded *)
(* row by row and mapped as actions or as responses.                       *)
(***************************************************************************)
\* the station-like and the time-like headers an extract can come with
StationHeaders ==
    {[network |-> NA, station |-> NA], [network |-> NA, station |-> "Station"],
     [network |-> "Network", station |-> "Station"]}
TimeHeaders ==
    {[timestamp |-> NA, date |-> NA, time |-> NA],
     [timestamp |-> "Timestamp", date |-> NA, time |-> NA],
     [timestamp |-> NA, date |-> "Visit Date", time |-> "Visit Time"],
     [timestamp |-> NA, date |-> "Date", time |-> "Time"],
     [timestamp |-> NA, date |-> "Visit Date", time |-> NA]}
\* Creative, Market and Revenue come together or not at all
ExtraHeaders ==
    {[creative |-> NA, market |-> NA, revenue |-> NA],
     [creative |-> "Creative", market |-> "Market", revenue |-> "Revenue"]}

RawLayouts ==
    {[sid |-> s, action |-> a, probability |-> p, network |-> st.network,
      station |-> st.station, timestamp |-> t.timestamp, date |-> t.date,
      time |-> t.time, creative |-> x.creative, market |-> x.market,
      revenue |-> x.revenue] :
        s \in {NA, "Session ID"}, a \in {NA, "Event"}, p \in {NA, "Probability"},
        st \in StationHeaders, t \in TimeHeaders, x \in ExtraHeaders}

\* the cells of a column, a missing cell if the column is absent
RawCells(header, cells, missing) == IF header = NA THEN {missing} ELSE cells

RawRows(h) ==
    [sid         : RawCells(h.sid, {"S1"}, NA),
     action      : RawCells(h.action, {"Click"}, NA),
     probability : RawCells(h.probability, {NaN, 50}, NaN),
     network     : RawCells(h.network, {NA, "WNBC"}, NA),
     station     : RawCells(h.station, {"wabc "}, NA),
     timestamp   : RawCells(h.timestamp, {NaT, 9}, NaT),
     date        : RawCells(h.date, {0}, NaT),
     time        : RawCells(h.time, {9}, NaT),
     creative    : RawCells(h.creative, {"spot a"}, NA),
     market      : RawCells(h.market, {"national cable"}, NA),
     revenue     : RawCells(h.revenue, {25}, NaN)]

InitMap ==
    /\ pc = "load_raw"
    /\ raised = ""
    /\ raw_hdr \in RawLayouts
    /\ raw = <<>> /\ mapped = <<>>
    /\ IdleDedupe /\ IdleCompile /\ IdleRank /\ IdleHour /\ IdlePerf
    /\ IdleRev /\ IdleMain

AddRawRow ==
    /\ pc = "load_raw"
    /\ Len(raw) < MaxRawRows
    /\ \E row \in RawRows(raw_hdr) : raw' = Append(raw, row)
    /\ UNCHANGED <<pc, raised, raw_hdr, mapped, dedupeVars, compileVars, rankVars,
                   hourVars, perfVars,
                   revVars, mainVars>>

\* auto6.py line 97
MapActions ==
    /\ pc = "load_raw"
    /\ LET r == map_actions(raw_hdr, raw)
       IN raised' = r.raised /\ mapped' = r.rows
    /\ pc' = "mapped_actions"
    /\ UNCHANGED <<raw_hdr, raw, dedupeVars, compileVars, rankVars, hourVars, perfVars,
                   revVars, mainVars>>

\* auto6.py line 98
MapResponse ==
    /\ pc = "load_raw"
    /\ LET r == map_response(raw_hdr, raw)
       IN raised' = r.raised /\ mapped' = r.rows
    /\ pc' = "mapped_response"
    /\ UNCHANGED <<raw_hdr, raw, dedupeVars, compileVars, rankVars, hourVars, perfVars,
                   revVars, mainVars>>

NextMap == AddRawRow \/ MapActions \/ MapResponse

SpecMap == InitMap /\ [][NextMap]_vars

(***************************************************************************)
(* The main machine: auto6.main, stage by stage.  The three input files    *)
(* are given at the start; a stage that fails ends the run.                *)
(***************************************************************************)
\* the ledger: every column, no station column, no cost column, or a cost
\* column named after none of the aliases validation and ranking accept
MainLedgerLayouts ==
    {PerfLayout, [PerfLayout EXCEPT !.station = NA], [PerfLayout EXCEPT !.cost = NA],
     [PerfLayout EXCEPT !.cost = "Client Gross Amt"]}

\* the spellings of the creative in the ledger and in the extracts, and of
\* the market in the ledger
MainCreatives == {"spot a", "SPOT A"}
MainLedgerMarkets == {"NY", "national", "National Cable"}

\* at most one ledger row; the cell of an absent column is missing
MainLedgers(h) ==
    {<<>>} \cup
    {<<[row EXCEPT !.station = IF h.station = NA THEN NA ELSE @,
                   !.cost = IF h.cost = NA THEN NaN ELSE @,
                   !.creative = c, !.market = m]>> :
        row \in {r \in PerfLedgerRows : r.station = "WABC" /\ r.cost = 500 /\ r.date = 0},
        c \in MainCreatives, m \in MainLedgerMarkets}

\* the two extracts: with or without the session header and the action header
MainActionLayouts ==
    {[NoRawHeaders EXCEPT !.sid = s, !.action = a, !.station = "Station",
                          !.timestamp = "Timestamp", !.creative = "Creative",
                          !.market = "Market", !.revenue = "Revenue"] :
        s \in {NA, "Session ID"}, a \in {NA, "Event"}}
MainResponseLayouts ==
    {[NoRawHeaders EXCEPT !.sid = s, !.station = "Station", !.timestamp = "Timestamp",
                          !.creative = "Creative", !.market = "Market"] :
        s \in {NA, "Session ID"}}

\* at most one row, stamped Monday 09:00
MainExtracts(h) ==
    {<<>>} \cup
    {<<[row EXCEPT !.creative = c]>> :
        row \in {r \in RawRows(h) : r.timestamp # NaT}, c \in MainCreatives}

\* validation.py lines 205-271: has_errors() of the compile report
validate_compile_data(h) ==
    \/ {"cost", "clientgross", "gross", "spend"} \cap cols_norm(h) = {}
    \/ {"station", "stationname", "channel"} \cap cols_norm(h) = {}

\* a variant of the handlers that lets main return 0 after an exception
ExitCode_Ignored(e) == 0

\* auto6.py lines 234-254: 0 at the end of the try block, 1 from every handler
ExitCode(e) == IF e = "" THEN 0 ELSE 1

\* the stages of main that produce the tables, in order
MainStages == <<"mapping", "ranking", "deduplication", "aggregation", "revenue injection">>

InitMain ==
    /\ pc = "main_start"
    /\ raised = ""
    /\ hdr \in MainLedgerLayouts
    /\ compile \in MainLedgers(hdr)
    /\ raw_hdr \in MainActionLayouts
    /\ raw \in MainExtracts(raw_hdr)
    /\ response_hdr \in MainResponseLayouts
    /\ response_raw \in MainExtracts(response_hdr)
    /\ mapped = <<>>
    /\ completed = <<>> /\ written = <<>> /\ exit_code = NoExit
    /\ pushed = NoPush
    /\ IdleDedupe /\ IdleRank /\ IdleHour /\ IdlePerf /\ IdleRev

\* lines 44-93: the environment report, the three files, the compile report
MainValidate ==
    /\ pc = "main_start"
    /\ \E env_errors \in BOOLEAN, files_found \in BOOLEAN :
         IF env_errors
         THEN pc' = "main_returned" /\ exit_code' = 1 /\ raised' = raised
         ELSE IF ~files_found
         THEN /\ pc' = "main_returned"
              /\ raised' = "FileNotFoundError"
              /\ exit_code' = ExitCode("FileNotFoundError")
         ELSE IF validate_compile_data(hdr)
         THEN pc' = "main_returned" /\ exit_code' = 1 /\ raised' = raised
         ELSE pc' = "main_map" /\ UNCHANGED <<raised, exit_code>>
    /\ UNCHANGED <<dedupeVars, compileVars, rankVars, hourVars, perfVars, mapVars, revVars,
                   completed, written, response_hdr, response_raw, pushed>>

\* lines 95-113: the two mappers; the reports on their outputs have no
\* errors, since the outputs always have SessionID and Action.  df is the
\* mapped response table.
MainMap ==
    /\ pc = "main_map"
    /\ \E a \in {map_actions(raw_hdr, raw)} :
       \E r \in {IF a.raised # "" THEN a ELSE map_response(response_hdr, response_raw)} :
          IF r.raised # ""
          THEN /\ pc' = "main_returned"
               /\ raised' = r.raised
               /\ exit_code' = ExitCode(r.raised)
               /\ UNCHANGED <<mapped, df, completed>>
          ELSE /\ pc' = "main_rank"
               /\ mapped' = a.rows
               /\ df' = r.rows
               /\ completed' = Append(completed, "mapping")
               /\ UNCHANGED <<raised, exit_code>>
    /\ UNCHANGED <<mode, top3, deduped, stats, compileVars, rankVars, hourVars, perfVars,
                   raw_hdr, raw, revVars, written, response_hdr, response_raw, pushed>>

\* lines 115-118
MainRank ==
    /\ pc = "main_rank"
    /\ \E r \in {build_station_priority(hdr, compile)} :
          IF r.raised # ""
          THEN /\ pc' = "main_returned"
               /\ raised' = r.raised
               /\ exit_code' = ExitCode(r.raised)
               /\ UNCHANGED <<rankVars, completed>>
          ELSE /\ pc' = "main_dedupe"
               /\ rank_table' = r.rankable
               /\ rank_top3' = r.top3
               /\ completed' = Append(completed, "ranking")
               /\ UNCHANGED <<raised, exit_code>>
    /\ UNCHANGED <<dedupeVars, compileVars, hourVars, perfVars, mapVars, revVars,
                   written, response_hdr, response_raw, pushed>>

\* lines 120-132: a kept action row carries every column of its mapped row
MainDedupe ==
    /\ pc = "main_dedupe"
    /\ \E m \in Modes :
         \E a \in {dedupe_actions(mapped, rank_top3, m)}, r \in {dedupe_response(df)} :
            IF r.raised # ""
            THEN /\ pc' = "main_returned"
                 /\ raised' = r.raised
                 /\ exit_code' = ExitCode(r.raised)
                 /\ UNCHANGED <<mode, stats, actions_dedup, response_dedup, completed>>
            ELSE /\ pc' = "main_aggregate"
                 /\ mode' = m
                 /\ stats' = a.stats
                 /\ actions_dedup' =
                      [k \in DOMAIN a.rows |-> a.rows[k] @@ mapped[a.rows[k].SourceRowID + 1]]
                 /\ response_dedup' = r.rows
                 /\ completed' = Append(completed, "deduplication")
                 /\ UNCHANGED <<raised, exit_code>>
    /\ UNCHANGED <<df, top3, deduped, compileVars, rankVars, hourVars, spend, perf, market_df, columns,
                   mapVars, revVars, written, response_hdr, response_raw, pushed>>

\* lines 134-143: the revenue attachment, the performance tables, the spend
\* tables and the Market table; an exception of a builder ends the run
MainAggregate ==
    /\ pc = "main_aggregate"
    /\ \E revenue_mode \in RevenueModes :
         \E mapped_cols \in {map_actions_columns(raw_hdr)},
            s \in {build_compile_spend(hdr, compile)} :
         \E dedup_cols \in {dedupe_actions_columns(mapped_cols, Len(mapped))} :
         \E attached \in {attach_action_revenue(mapped, actions_dedup, mapped_cols,
                                                dedup_cols, revenue_mode)} :
         \E p \in {IF s.raised # "" THEN [raised |-> s.raised, tables |-> NoPerf]
                   ELSE build_performance_tables(attached, response_dedup, s.tables,
                                                 [h |-> raw_hdr, rows |-> raw],
                                                 [h |-> response_hdr, rows |-> response_raw])} :
         \E m \in {IF p.raised # "" THEN [raised |-> p.raised, table |-> <<>>]
                   ELSE build_market_table(attached, response_dedup, s.tables)} :
            /\ action_rev_mode' = revenue_mode
            /\ actions_m_columns' = mapped_cols
            /\ actions_dedup_columns' =
                 attach_action_revenue_columns(mapped_cols, dedup_cols, revenue_mode)
            /\ actions_dedup' = attached
            /\ perf' = p.tables
            /\ IF m.raised # ""
               THEN /\ pc' = "main_returned"
                    /\ raised' = m.raised
                    /\ exit_code' = ExitCode(m.raised)
                    /\ UNCHANGED <<spend, market_df, columns, completed>>
               ELSE /\ pc' = "main_inject"
                    /\ spend' = s.tables
                    /\ market_df' = m.table
                    /\ columns' = TableColumns(AllTables(p.tables, m.table))
                    /\ completed' = Append(completed, "aggregation")
                    /\ UNCHANGED <<raised, exit_code>>
    /\ UNCHANGED <<dedupeVars, compileVars, rankVars, hourVars,
                   response_dedup, mapVars, written, response_hdr, response_raw, pushed>>

\* lines 147-149
MainInject ==
    /\ pc = "main_inject"
    /\ LET has_revenue == "TotalActionRevenue" \in Range(actions_dedup_columns)
           revenue == [i \in DOMAIN actions_dedup |-> actions_dedup[i].TotalActionRevenue]
       IN /\ \E r \in {inject_action_revenue(perf, market_df, actions_dedup, has_revenue,
                                              revenue, action_rev_mode)} :
                /\ perf' = r.perf_tabs
                /\ market_df' = r.market_df
          /\ columns' = inject_action_revenue_columns(AllTables(perf, market_df), columns,
                                                      has_revenue, revenue, action_rev_mode)
    /\ completed' = Append(completed, "revenue injection")
    /\ pc' = "main_write"
    /\ UNCHANGED <<raised, dedupeVars, compileVars, rankVars, hourVars, actions_dedup,
                   response_dedup, spend, mapVars, revVars, written, exit_code,
                   response_hdr, response_raw, pushed>>

\* lines 236-254: the except clauses an exception of the output stages can
\* end in: a file that is not there (the workbook at out_path.stat(), the
\* credentials file of gspread.service_account()), a ValueError, any other
\* exception
MainHandlers == {"FileNotFoundError", "ValueError", "Exception"}

\* lines 150-202: the dedupe report and the workbook.  The report or the
\* writer's constructor may raise before there is a file; an exception
\* inside the with block leaves the sheets written so far in the file the
\* writer saves on exit; out_path.stat() raises FileNotFoundError when the
\* saved file is gone by then.  written records the files that were saved.
MainWriteExcel ==
    /\ pc = "main_write"
    /\ \E outcome \in {"written", "raised", "raised with file"}, e \in MainHandlers :
         /\ written' = IF outcome = "raised" THEN written ELSE Append(written, "xlsx")
         /\ IF outcome = "written"
            THEN pc' = "main_csv" /\ UNCHANGED <<raised, exit_code>>
            ELSE /\ pc' = "main_returned"
                 /\ raised' = e
                 /\ exit_code' = ExitCode(e)
    /\ UNCHANGED <<dedupeVars, compileVars, rankVars, hourVars, perfVars, mapVars, revVars,
                   completed, response_hdr, response_raw, pushed>>

\* lines 204-219: the MasterGrain export; perf_tabs.get("MasterGrain") is
\* None unless the tables have that key
MainWriteCsv ==
    /\ pc = "main_csv"
    /\ written' = IF "MasterGrain" \in DOMAIN perf /\ perf["MasterGrain"] # <<>>
                  THEN Append(written, "csv")
                  ELSE written
    /\ pc' = "main_sheets"
    /\ UNCHANGED <<raised, dedupeVars, compileVars, rankVars, hourVars, perfVars, mapVars,
                   revVars, completed, exit_code, response_hdr, response_raw, pushed>>

\* config.py lines 20-30: the tabs of the workbook in the order of
\* EXCEL_TO_MASTER, and the worksheet each goes to
SheetTabs ==
    <<"Channel", "Creative", "Day", "Hour", "Channel by Hour", "Channel by Creative",
      "Market", "Actions_dedup", "Response_dedup">>
EXCEL_TO_MASTER(tab) ==
    CASE tab = "Channel" -> "Master_Channel"
      [] tab = "Creative" -> "Master_Creative"
      [] tab = "Day" -> "Master_Day"
      [] tab = "Hour" -> "Master_Hour"
      [] tab = "Channel by Hour" -> "Master_ChannelHour"
      [] tab = "Channel by Creative" -> "Master_ChannelCreative"
      [] tab = "Market" -> "Master_Market"
      [] tab = "Actions_dedup" -> "Master_ActionsDedup"
      [] tab = "Response_dedup" -> "Master_ResponseDedup"

\* sheets.py lines 171-184: the frame of a tab
frames_from_memory(tab) ==
    CASE tab = "Market" -> market_df
      [] tab = "Actions_dedup" -> actions_dedup
      [] tab = "Response_dedup" -> response_dedup
      [] OTHER -> IF tab \in DOMAIN perf THEN perf[tab] ELSE <<>>

\* the values --sheets-tabs / SHEETS_TABS can have: none, two tabs, no tab
\* of the run
Whitelists == {<<>>, <<"Channel", "Market">>, <<"MasterGrain">>}

\* sheets.py lines 151-160: the tabs that are kept
filter_frames(whitelist) ==
    IF whitelist = <<>> THEN Range(SheetTabs)
    ELSE Range(whitelist) \cap Range(SheetTabs)

\* auto6.py lines 221-229 and sheets.py lines 233-317: the optional push up
\* to the call of _push_frames_to_sheet and the opening of the spreadsheet.
\* It returns without a push (mode Skip, no terminal, no clients.json, no
\* frame selected), raises (clients.json unreadable or without sheet_id,
\* no credentials, no network), ends the process with SystemExit(0) when
\* 'q' is typed at a prompt, or goes on to the tabs.
MainPushSheets ==
    /\ pc = "main_sheets"
    /\ \E outcome \in {"skipped", "raised", "quit", "push"}, e \in MainHandlers,
          whitelist \in Whitelists :
         CASE outcome = "skipped" \/ (outcome = "push" /\ filter_frames(whitelist) = {}) ->
                /\ pc' = "main_returned"
                /\ exit_code' = ExitCode("")
                /\ UNCHANGED <<raised, pushed>>
           [] outcome = "raised" ->
                /\ pc' = "main_returned"
                /\ raised' = e
                /\ exit_code' = ExitCode(e)
                /\ UNCHANGED pushed
           [] outcome = "quit" ->
                /\ pc' = "main_returned"
                /\ raised' = "SystemExit"
                /\ exit_code' = 0
                /\ UNCHANGED pushed
           [] outcome = "push" /\ filter_frames(whitelist) # {} ->
                /\ pc' = "main_push"
                /\ pushed' = [frames |-> filter_frames(whitelist), done |-> 0]
                /\ UNCHANGED <<raised, exit_code>>
    /\ UNCHANGED <<dedupeVars, compileVars, rankVars, hourVars, perfVars, mapVars,
                   revVars, completed, written, response_hdr, response_raw>>

\* sheets.py lines 189-229 and auto6.py line 234: one turn of the loop of
\* _push_frames_to_sheet.  A tab that was not selected or has no rows is
\* skipped; the others take several calls to the service, any of which may
\* raise, before or after the worksheet was changed.  After the last tab
\* main returns 0.
MainPushTab ==
    /\ pc = "main_push"
    /\ LET tab == SheetTabs[pushed.done + 1]
           last == pushed.done + 1 = Len(SheetTabs)
           goes_on == /\ pushed' = [pushed EXCEPT !.done = @ + 1]
                      /\ pc' = IF last THEN "main_returned" ELSE "main_push"
                      /\ exit_code' = IF last THEN ExitCode("") ELSE exit_code
                      /\ raised' = raised
       IN IF tab \notin pushed.frames \/ frames_from_memory(tab) = <<>>
          THEN goes_on /\ UNCHANGED written
          ELSE \E outcome \in {"appended", "raised", "raised partway"} :
                 /\ written' = IF outcome = "raised" THEN written
                               ELSE Append(written, EXCEL_TO_MASTER(tab))
                 /\ IF outcome = "appended"
                    THEN goes_on
                    ELSE /\ pc' = "main_returned"
                         /\ raised' = "Exception"
                         /\ exit_code' = ExitCode("Exception")
                         /\ UNCHANGED pushed
    /\ UNCHANGED <<dedupeVars, compileVars, rankVars, hourVars, perfVars, mapVars,
                   revVars, completed, response_hdr, response_raw>>

NextMain ==
    \/ MainValidate \/ MainMap \/ MainRank \/ MainDedupe \/ MainAggregate
    \/ MainInject \/ MainWriteExcel \/ MainWriteCsv \/ MainPushSheets \/ MainPushTab

SpecMain == InitMain /\ [][NextMain]_vars

(***************************************************************************)
(* The revenue machine: a run of main from step 5 on (auto6.py lines       *)
(* 134-149).  The ledger and the two extracts are drawn; the mapped        *)
(* tables, the rank tables and the deduplicated tables are what steps 2-4  *)
(* of main make of them.  The actions extract has up to two rows, with or  *)
(* without a revenue column; the response extract has one row.             *)
(***************************************************************************)
RevenueLedgers == {<<>>} \cup {<<row>> : row \in PerfLedgerRows}

\* the rows of an actions extract with headers h, stamped Monday 09:00: two
\* sessions, two action labels, a revenue cell if the extract has the column
RevenueExtractRows(h) ==
    {[row EXCEPT !.sid = s, !.action = a, !.revenue = v] :
        row \in {r \in RawRows(h) : r.timestamp # NaT},
        s \in {"S1", "S2"}, a \in {"Click", "Buy"},
        v \in IF h.revenue = NA THEN {NaN} ELSE RevenueCells}

RevenueExtracts(h) ==
    {<<>>} \cup {<<row>> : row \in RevenueExtractRows(h)}
           \cup (RevenueExtractRows(h) \X RevenueExtractRows(h))

\* auto6.py lines 95-132: the state of main when step 5 begins
InitRev ==
    /\ pc = "main_aggregate"
    /\ raised = ""
    /\ hdr = PerfLayout
    /\ compile \in RevenueLedgers
    /\ raw_hdr \in ActionExtractHeaders
    /\ raw \in RevenueExtracts(raw_hdr)
    /\ response_hdr \in {h \in MainResponseLayouts : h.sid # NA}
    /\ response_raw \in {x \in MainExtracts(response_hdr) :
                            x # <<>> /\ x[1].creative = "SPOT A"}
    /\ mapped = map_actions(raw_hdr, raw).rows
    /\ df = map_response(response_hdr, response_raw).rows
    /\ \E r \in {build_station_priority(hdr, compile)} :
          /\ r.raised = ""
          /\ rank_table = r.rankable
          /\ rank_top3 = r.top3
    /\ mode \in Modes
    /\ \E a \in {dedupe_actions(mapped, rank_top3, mode)} :
          /\ stats = a.stats
          /\ actions_dedup =
               [k \in DOMAIN a.rows |-> a.rows[k] @@ mapped[a.rows[k].SourceRowID + 1]]
    /\ response_dedup = dedupe_response(df).rows
    /\ top3 = <<>> /\ deduped = <<>>
    /\ completed = <<"mapping", "ranking", "deduplication">>
    /\ written = <<>> /\ exit_code = NoExit /\ pushed = NoPush
    /\ spend = NoSpend /\ perf = NoPerf /\ market_df = <<>> /\ columns = NoColumns
    /\ IdleHour /\ IdleRev

NextRev == MainAggregate \/ MainInject

SpecRev == InitRev /\ [][NextRev]_vars

(***************************************************************************)
(* Properties of the deduplication machine                                 *)
(***************************************************************************)
ActionsDone == pc = "actions"
ResponseDone == pc = "response"

\* the Station of an input row as the functions see it
CanonStation(row) == fillna(norm_station(row.Station), NA, "UNKNOWN")
\* the Probability of an input row, absent or unparseable as minus infinity
CanonProbability(row) == fillna(coerce_numeric(row.Probability), NaN, NegInf)
Ranked(row) == rank_map(top3, CanonStation(row)) # NoRank

\* input rows (positions) of the group of input row i, under the mode in use
InputGroup(i) == {j \in 1..Len(df) : KeyOf(df[j], mode) = KeyOf(df[i], mode)}
\* output rows (positions) that carry the key of input row i
Survivors(i) == {k \in 1..Len(deduped) : KeyOf(deduped[k], mode) = KeyOf(df[i], mode)}

\* Timestamp a is no later than b, a missing Timestamp being the latest
NoLater(a, b) == a = b \/ (a # NaT /\ (b = NaT \/ a < b))

PresentActionKeys == {KeyOf(df[i], mode) : i \in {j \in 1..Len(df) : KeyPresent(df[j], mode)}}
PresentSessionIDs == {df[i].SessionID : i \in 1..Len(df)} \ {NA}

\* C1: dedupe_actions (either mode) and dedupe_response return, for every
\* input table, exactly one row per distinct group key of the input: as many
\* output rows as distinct keys, and no two output rows with the same key.
C1_DedupCardinality ==
    /\ ActionsDone =>
         /\ Len(deduped) = Cardinality(PresentActionKeys)
         /\ \A k1, k2 \in 1..Len(deduped) :
              KeyOf(deduped[k1], mode) = KeyOf(deduped[k2], mode) => k1 = k2
    /\ ResponseDone =>
         /\ raised = ""
         /\ Len(deduped) = Cardinality(PresentSessionIDs)
         /\ \A k1, k2 \in 1..Len(deduped) :
              deduped[k1].SessionID = deduped[k2].SessionID => k1 = k2

\* C2: in dedupe_actions, a group that has a row on a top-3 station is
\* survived by a row on a top-3 station, whatever the Probabilities are.
C2_PriorityPrecedence ==
    ActionsDone =>
      \A i \in 1..Len(df) :
        (KeyPresent(df[i], mode) /\ Ranked(df[i])) =>
           /\ Survivors(i) # {}
           /\ \A k \in Survivors(i) : rank_map(top3, deduped[k].Station) # NoRank

\* a ranked row wins its group against an unranked row of strictly higher,
\* finite Probability
C2_Witness ==
    /\ ActionsDone
    /\ \E i, j \in 1..Len(df) :
         /\ KeyPresent(df[i], mode)
         /\ j \in InputGroup(i)
         /\ Ranked(df[i]) /\ ~Ranked(df[j])
         /\ CanonProbability(df[i]) > NegInf
         /\ CanonProbability(df[j]) > CanonProbability(df[i])
         /\ \E k \in Survivors(i) : deduped[k].SourceRowID = i - 1

\* C3: in dedupe_actions, in a group with no row on a top-3 station the
\* survivor has the highest Probability of the group (absent counting as
\* minus infinity); among the rows with that Probability it has the earliest
\* Timestamp (missing last), and among those the earliest row position.  A row
\* with absent Probability does not survive a row with a finite one.
C3_ProbabilityRule ==
    ActionsDone =>
      \A i \in 1..Len(df) :
        (KeyPresent(df[i], mode) /\ \A j \in InputGroup(i) : ~Ranked(df[j])) =>
           /\ Survivors(i) # {}
           /\ \A k \in Survivors(i) :
                LET w == deduped[k].SourceRowID + 1
                IN /\ w \in InputGroup(i)
                   /\ deduped[k].Probability = CanonProbability(df[w])
                   /\ \A j \in InputGroup(i) :
                        /\ deduped[k].Probability >= CanonProbability(df[j])
                        /\ CanonProbability(df[j]) = deduped[k].Probability =>
                             /\ NoLater(deduped[k].Timestamp, df[j].Timestamp)
                             /\ df[j].Timestamp = deduped[k].Timestamp => w <= j
                        /\ (df[w].Probability = NaN) => (df[j].Probability = NaN)

\* two unranked rows tie on the highest, finite Probability and the later
\* row, which has the earlier Timestamp, survives
C3_Witness ==
    /\ ActionsDone
    /\ \E i, j \in 1..Len(df) :
         /\ i < j
         /\ KeyPresent(df[i], mode)
         /\ j \in InputGroup(i)
         /\ \A x \in InputGroup(i) : ~Ranked(df[x])
         /\ CanonProbability(df[i]) > NegInf
         /\ CanonProbability(df[i]) = CanonProbability(df[j])
         /\ df[j].Timestamp # df[i].Timestamp
         /\ NoLater(df[j].Timestamp, df[i].Timestamp)
         /\ \E k \in Survivors(i) : deduped[k].SourceRowID = j - 1

ResponseInputGroup(sid) == {j \in 1..Len(df) : df[j].SessionID = sid}

\* the row of a session that sorts first: earliest Timestamp, missing last,
\* then earliest position
EarliestOf(g) ==
    {i \in g : \A j \in g :
        /\ NoLater(df[i].Timestamp, df[j].Timestamp)
        /\ df[i].Timestamp = df[j].Timestamp => i <= j}

\* C4: dedupe_response keeps, for every SessionID, the row of the session with
\* the earliest Timestamp; a missing Timestamp sorts after every valid one and
\* rows tied on Timestamp are resolved by input order.
C4_ResponseEarliest ==
    (ResponseDone /\ raised = "") =>
      \A sid \in PresentSessionIDs :
        \E k \in 1..Len(deduped) :
          /\ deduped[k].SessionID = sid
          /\ \A k2 \in 1..Len(deduped) : deduped[k2].SessionID = sid => k2 = k
          /\ \E i \in EarliestOf(ResponseInputGroup(sid)) :
               /\ deduped[k].Station = df[i].Station
               /\ deduped[k].Timestamp = df[i].Timestamp

\* a session whose second row is the earlier one: the second row survives
C4_Witness ==
    /\ ResponseDone
    /\ Len(df) = 2
    /\ df[1].SessionID = df[2].SessionID /\ df[1].SessionID # NA
    /\ df[1].Station # df[2].Station
    /\ df[2].Timestamp # df[1].Timestamp
    /\ NoLater(df[2].Timestamp, df[1].Timestamp)
    /\ Len(deduped) = 1
    /\ deduped[1].Timestamp = df[2].Timestamp /\ deduped[1].Station = df[2].Station

(***************************************************************************)
(* Properties of the ranking machine                                       *)
(***************************************************************************)
Ranked_ == pc = "ranked" /\ raised = ""

\* rows a and b are in the order the claim gives: cost_per_spot = Cost /
\* SpotCount descending, then Cost descending, then SpotCount descending,
\* then Station ascending
InRankOrder(a, b) ==
    LET lhs == a.Cost * b.SpotCount
        rhs == b.Cost * a.SpotCount
    IN \/ lhs > rhs
       \/ /\ lhs = rhs
          /\ \/ a.Cost > b.Cost
             \/ /\ a.Cost = b.Cost
                /\ \/ a.SpotCount > b.SpotCount
                   \/ /\ a.SpotCount = b.SpotCount
                      /\ (a.Station = b.Station \/ StrLess(a.Station, b.Station))

\* C8: build_station_priority orders the stations by cost_per_spot = Cost /
\* SpotCount descending, then Cost descending, then SpotCount descending, then
\* Station ascending, and numbers them Rank 1, 2, 3, ... in that order.
C8_RankOrder ==
    Ranked_ =>
      \A k \in 1..Len(rank_table) :
        /\ rank_table[k].Rank = k
        /\ rank_table[k].SpotCount > 0
        /\ k < Len(rank_table) => InRankOrder(rank_table[k], rank_table[k + 1])

\* the example of the claim: the station with the smaller Cost and the
\* higher cost per spot (500 / 1 against 1000 / 4) is Rank 1
C8_Witness ==
    /\ Ranked_
    /\ hdr.cost = "Cost" /\ hdr.spots = "Spots"
    /\ Len(compile) = 2 /\ Len(rank_table) = 2
    /\ compile[1].station = "WABC" /\ compile[1].cost = 1000 /\ compile[1].spots = 4
    /\ compile[2].station = "WNBC" /\ compile[2].cost = 500 /\ compile[2].spots = 1
    /\ rank_table[1].Station = "WNBC" /\ rank_table[1].Rank = 1
    /\ rank_table[2].Station = "WABC" /\ rank_table[2].Rank = 2

(***************************************************************************)
(* Properties of the hour machine                                          *)
(***************************************************************************)
HourDone == pc = "hour_done"

\* the hour the four strategies give in the stated precedence, strategy (1)
\* being the parse of a date-time or time-of-day text: a number in [0, 1) is
\* a day fraction, a number in [100, 2359] is HHMM
StatedHour(c) ==
    CASE c.kind = "timetext" -> c.v
      [] c.kind \in {"number", "numtext"} /\ c.v >= 0 /\ c.v < 1 * Hundredths ->
            (c.v * 24) \div Hundredths
      [] c.kind \in {"number", "numtext"} /\ c.v >= 100 * Hundredths
            /\ c.v <= 2359 * Hundredths ->
            ((c.v \div Hundredths) \div 100) % 24
      [] c.kind = "timeobj" -> c.v
      [] OTHER -> NaN

\* C10: coerce_hour takes the first of (1) date-time parse, (2) day fraction
\* in [0,1) -> floor(f*24), (3) HHMM in [100,2359] -> floor(v/100) mod 24,
\* (4) hour of a time object; so "630" gives 6, 0.75 gives 18 and "6:30 AM"
\* gives 6; a result is in 0..23 and a value no strategy reads is missing.
C10_CoerceHour ==
    HourDone =>
      /\ hour_out = StatedHour(hour_in)
      /\ hour_out = NaN \/ hour_out \in Hours
      /\ hour_in = [kind |-> "numtext", v |-> 630 * Hundredths] => hour_out = 6
      /\ hour_in = [kind |-> "number", v |-> 75] => hour_out = 18
      /\ hour_in = [kind |-> "timetext", v |-> 6] => hour_out = 6

(***************************************************************************)
(* Properties of the performance machine                                   *)
(***************************************************************************)
\* the tables were built and nothing was raised
PerfDone == pc = "perf_done" /\ raised = ""

\* a weekly table: one of the six of perf_tabs, or market_df
ReportTable(t) == IF t = "Market" THEN market_df ELSE perf[t]

\* the column that holds Cost per X
RatioColumn(x) == IF x = "Responses" THEN "Cost per Response" ELSE CostPer(x)

\* the count columns X of a row for which the row has a Cost per X column
Denominators(row) == {x \in DOMAIN row : RatioColumn(x) \in DOMAIN row}

\* the action-label columns of a row: the labels found in the actions passed in
DiscoveredActionColumns(row) ==
    DOMAIN row \cap {actions_dedup[j].Action : j \in DOMAIN actions_dedup}

\* C5 (ratio safety): in every row of every performance table, for every
\* count column X that has a "Cost per X" column, Cost per X is NaN exactly
\* when X = 0 and is the row's Cost / X otherwise; no division error is raised.
C5_RatioSafety ==
    /\ raised # "ZeroDivisionError"
    /\ PerfDone =>
         \A t \in ReportTables : \A i \in DOMAIN ReportTable(t) :
            LET row == ReportTable(t)[i]
            IN \A x \in Denominators(row) :
                  /\ (row[RatioColumn(x)] = NaNRatio) <=> (row[x] = 0)
                  /\ row[x] # 0 => row[RatioColumn(x)] = [num |-> row.Cost, den |-> row[x]]

\* a Channel row with spend and responses, whose ratio is defined, next to a
\* Channel by Creative row without responses, whose ratio is NaN
C5_Witness ==
    /\ PerfDone
    /\ \E i \in DOMAIN perf["Channel"] :
          LET row == perf["Channel"][i]
          IN /\ row.Cost > 0 /\ row.Responses > 0
             /\ row["Cost per Response"] = [num |-> row.Cost, den |-> row.Responses]
    /\ \E i \in DOMAIN perf["Channel by Creative"] :
          LET row == perf["Channel by Creative"][i]
          IN row.Cost > 0 /\ row.Responses = 0 /\ row["Cost per Response"] = NaNRatio

\* C6 (Actions_Total consistency): in every row of every performance table
\* that has an Actions_Total column, the Creative table included,
\* Actions_Total is the sum of the row's action-label columns.
C6_ActionsTotal ==
    PerfDone =>
      \A t \in ReportTables : \A i \in DOMAIN ReportTable(t) :
         LET row == ReportTable(t)[i]
         IN "Actions_Total" \in DOMAIN row =>
               row["Actions_Total"] = SumOver(row, DiscoveredActionColumns(row))

\* C7 (spend non-negativity): every row of every spend table and of every
\* performance table has Cost >= 0 and Impressions >= 0, whatever the cells
\* of the ledger.
C7_SpendNonNegative ==
    pc = "perf_done" =>
      /\ \A t \in SpendTableNames : \A i \in DOMAIN spend[t] :
            spend[t][i].Cost >= 0 /\ spend[t][i].Impressions >= 0
      /\ \A t \in ReportTables : \A i \in DOMAIN ReportTable(t) :
            ReportTable(t)[i].Cost >= 0 /\ ReportTable(t)[i].Impressions >= 0

\* the buckets as the specification states them
StatedDaypart(h) ==
    CASE h \in 0..1   -> "Late Fringe"
      [] h \in 2..5   -> "Overnight"
      [] h \in 6..8   -> "Early Morning"
      [] h \in 9..17  -> "Daytime"
      [] h \in 18..23 -> "Prime"

\* C9 (daypart bucketing): hour_to_daypart gives every hour in 0..23 the
\* stated bucket, and every row of the Hour and Channel by Hour tables
\* carries the bucket of its Hour.
C9_Daypart ==
    /\ \A h \in Hours : hour_to_daypart(h) = StatedDaypart(h)
    /\ PerfDone =>
         \A t \in {"Hour", "Channel by Hour"} : \A i \in DOMAIN perf[t] :
            /\ perf[t][i].Hour \in Hours
            /\ perf[t][i].Daypart = StatedDaypart(perf[t][i].Hour)

\* an Hour row at 09:00 marked Daytime and a Channel by Hour row at 20:00
\* marked Prime
C9_Witness ==
    /\ PerfDone
    /\ \E i \in DOMAIN perf["Hour"] :
          perf["Hour"][i].Hour = 9 /\ perf["Hour"][i].Daypart = "Daytime"
    /\ \E i \in DOMAIN perf["Channel by Hour"] :
          /\ perf["Channel by Hour"][i].Hour = 20
          /\ perf["Channel by Hour"][i].Daypart = "Prime"

\* C11 (empty input): dedupe_actions in either mode and dedupe_response, on
\* an input with zero rows, raise nothing and return an empty table with
\* statistics whose counts are all zero.
C11_EmptyInput ==
    /\ (ActionsDone /\ df = <<>>) =>
         /\ deduped = <<>>
         /\ stats.groups = 0
         /\ stats.kept_by_top3 = 0
         /\ stats.kept_by_probability = 0
    /\ (ResponseDone /\ df = <<>>) =>
         /\ raised = ""
         /\ deduped = <<>>
         /\ stats.groups = 0

\* the columns of the mapped input tables
ActionColumns == {"SessionID", "Action", "Station", "Timestamp", "Probability"}
ResponseColumns == {"SessionID", "Station", "Timestamp"}

\* C12 (SourceRowID): every row output by dedupe_actions and by
\* dedupe_response carries a SourceRowID, the position of the input row that
\* won its group, together with every column of that input row and nothing
\* else (the scratch columns __order, __rank and __ts_sort are removed).
C12_SourceRowID ==
    /\ ActionsDone =>
         \A k \in DOMAIN deduped :
            /\ DOMAIN deduped[k] = ActionColumns \cup {"SourceRowID"}
            /\ deduped[k].SourceRowID \in 0..(Len(df) - 1)
            /\ deduped[k] = PrepareActions(df)[deduped[k].SourceRowID + 1]
            /\ KeyOf(df[deduped[k].SourceRowID + 1], mode) = KeyOf(deduped[k], mode)
    /\ (ResponseDone /\ raised = "") =>
         \A k \in DOMAIN deduped :
            /\ DOMAIN deduped[k] = ResponseColumns \cup {"SourceRowID"}
            /\ deduped[k].SourceRowID \in 0..(Len(df) - 1)
            /\ deduped[k].SessionID = df[deduped[k].SourceRowID + 1].SessionID

\* the groups of the input (by key) that have a row on a top-3 station
GroupsWithTop3 ==
    {key \in PresentActionKeys :
        \E i \in 1..Len(df) : KeyOf(df[i], mode) = key /\ Ranked(df[i])}

\* C13 (statistics of dedupe_actions): groups is the number of output rows,
\* kept_by_top3 the number of groups with at least one row on a top-3
\* station, kept_by_probability the number of groups with none, so the two
\* add up to groups; mode echoes the argument and group_keys names the
\* grouping key in use.
C13_DedupStats ==
    ActionsDone =>
      /\ stats.groups = Len(deduped)
      /\ stats.kept_by_top3 = Cardinality(GroupsWithTop3)
      /\ stats.kept_by_probability = Cardinality(PresentActionKeys \ GroupsWithTop3)
      /\ stats.kept_by_top3 + stats.kept_by_probability = stats.groups
      /\ stats.mode = mode
      /\ stats.group_keys =
            (IF mode = "session_only" THEN "SessionID" ELSE "SessionID, Action")

\* two groups, one kept by top-3 priority and the other by probability
C13_Witness ==
    /\ ActionsDone
    /\ stats.groups = 2
    /\ stats.kept_by_top3 = 1
    /\ stats.kept_by_probability = 1

\* C14 (action columns everywhere): every row of every performance table
\* (Channel, Channel by Creative, Creative, Day, Hour, Channel by Hour,
\* Market) has Cost per Response, and a row that has action count columns
\* also has Actions_Total, Cost per Actions_Total and, for every action
\* column, its Cost per {action} column.
C14_ActionColumns ==
    PerfDone =>
      \A t \in ReportTables : \A i \in DOMAIN ReportTable(t) :
         LET row == ReportTable(t)[i]
             labels == DiscoveredActionColumns(row)
         IN /\ "Cost per Response" \in DOMAIN row
            /\ labels # {} =>
                 /\ "Actions_Total" \in DOMAIN row
                 /\ CostPer("Actions_Total") \in DOMAIN row
                 /\ \A l \in labels : CostPer(l) \in DOMAIN row

\* the tables of the run are built and not yet extended with revenue
\* (auto6.py line 145)
MainAggregated == pc = "main_inject"
\* the revenue stage of main has returned (auto6.py line 149)
RevenueDone == pc = "main_write" /\ raised = ""

\* the action columns of a row in case-insensitive order of their labels,
\* each followed by its Cost per column
StatedActionColumns(row) ==
    LET labels == DiscoveredActionColumns(row)
        sorted == SortSetBy(labels, [p \in labels \X labels |->
                                        StrLess(StrLower(p[1]), StrLower(p[2]))])
    IN [k \in 1..(2 * Len(sorted)) |->
          IF k % 2 = 1 THEN sorted[(k + 1) \div 2] ELSE CostPer(sorted[k \div 2])]

\* the stated order of the columns a table can have
StatedColumns(t, row) ==
    <<"Client">> \o IdColumns(t) \o <<"Cost", "Responses", "Cost per Response">>
      \o StatedActionColumns(row)
      \o <<"Actions_Total", "Cost per Actions_Total", "Impressions", WeekCol>>

StationRowsOf(row) ==
    {j \in DOMAIN perf["Channel by Creative"] :
        /\ perf["Channel by Creative"][j].Creative = row.Creative
        /\ perf["Channel by Creative"][j][WeekCol] = row[WeekCol]}

\* the base metrics of a Creative row: Cost, Responses, Impressions and the
\* action columns
BaseMetrics(row) == {"Cost", "Responses", "Impressions"} \cup DiscoveredActionColumns(row)

\* C16 (Creative rollup): every (Creative, week) of the Channel by Creative
\* table has exactly one Creative row; each base metric of a Creative row
\* (Cost, Responses, Impressions, each action column) is the sum of that
\* metric over the Channel by Creative rows of its Creative and week; and
\* every Cost per X of the row is the row's own Cost over the row's own X,
\* NaN when X is 0.
C16_CreativeRollup ==
    PerfDone =>
      /\ \A j \in DOMAIN perf["Channel by Creative"] :
            Cardinality({i \in DOMAIN perf["Creative"] :
                            j \in StationRowsOf(perf["Creative"][i])}) = 1
      /\ \A i \in DOMAIN perf["Creative"] :
            LET row == perf["Creative"][i]
            IN /\ StationRowsOf(row) # {}
               /\ \A c \in BaseMetrics(row) :
                     row[c] = SumOver([j \in DOMAIN perf["Channel by Creative"] |->
                                          perf["Channel by Creative"][j][c]],
                                      StationRowsOf(row))
               /\ \A x \in BaseMetrics(row) \cup {"Actions_Total"} :
                     RatioColumn(x) \in DOMAIN row =>
                        row[RatioColumn(x)] =
                           (IF row[x] > 0 THEN [num |-> row.Cost, den |-> row[x]]
                            ELSE NaNRatio)

\* a Creative row summed over two stations, one with the spend and the other
\* with the response, whose Cost per Response is the summed Cost over the
\* summed Responses, a ratio that neither station row has
C16_Witness ==
    /\ PerfDone
    /\ \E i \in DOMAIN perf["Creative"] :
          LET row == perf["Creative"][i]
          IN /\ Cardinality(StationRowsOf(row)) = 2
             /\ row.Cost > 0 /\ row.Responses > 0
             /\ row["Cost per Response"] = [num |-> row.Cost, den |-> row.Responses]
             /\ \A j \in StationRowsOf(row) :
                   perf["Channel by Creative"][j]["Cost per Response"]
                      # row["Cost per Response"]

\* the (Station, week) of an event as the Channel table keys it
ChannelKeyOf(ev) ==
    <<fillna(norm_station(ev.Station), NA, "UNKNOWN"),
      week_label_series(coerce_datetime(ev.Timestamp))>>

\* the (Station, week) keys of the weekly station spend, of the response
\* counts and of the action pivot
SpendKeys == {<<spend.station_w[j].Station, spend.station_w[j][WeekCol]>> :
                 j \in DOMAIN spend.station_w}
ResponseKeys ==
    {key \in {ChannelKeyOf(response_dedup[j]) : j \in DOMAIN response_dedup} :
        key[2] # NaN}
ActionPivotKeys ==
    {key \in {ChannelKeyOf(actions_dedup[j]) :
                 j \in {n \in DOMAIN actions_dedup : actions_dedup[n].Action # NA}} :
        key[2] # NaN}

ChannelRowsAt(key) ==
    {i \in DOMAIN perf["Channel"] :
        perf["Channel"][i].Station = key[1] /\ perf["Channel"][i][WeekCol] = key[2]}

\* C17 (outer join with zero fill): every (Station, week) of the weekly
\* station spend, of the response counts or of the action pivot is exactly
\* one row of the Channel table; Cost, Impressions, Responses and every
\* action column of every row are non-null; a key with spend only shows its
\* Cost with Responses = 0 and every action count = 0, and a key with events
\* only shows Cost = 0.
C17_OuterJoinZeroFill ==
    PerfDone =>
      /\ \A key \in SpendKeys \cup ResponseKeys \cup ActionPivotKeys :
            Cardinality(ChannelRowsAt(key)) = 1
      /\ \A i \in DOMAIN perf["Channel"] :
            LET row == perf["Channel"][i]
                key == <<row.Station, row[WeekCol]>>
            IN /\ \A c \in {"Cost", "Impressions", "Responses"} \cup DiscoveredActionColumns(row) :
                     row[c] # NaN
               /\ (key \in SpendKeys /\ key \notin ResponseKeys \cup ActionPivotKeys) =>
                     /\ \E j \in DOMAIN spend.station_w :
                           /\ spend.station_w[j].Station = key[1]
                           /\ spend.station_w[j][WeekCol] = key[2]
                           /\ spend.station_w[j].Cost = row.Cost
                     /\ row.Responses = 0
                     /\ \A l \in DiscoveredActionColumns(row) : row[l] = 0
               /\ (key \notin SpendKeys /\ key \in ResponseKeys \cup ActionPivotKeys) =>
                     row.Cost = 0

\* a Channel table with a row for a station that has spend and no events
\* next to a row for a station that has an action and no spend
C17_Witness ==
    /\ PerfDone
    /\ \E i, k \in DOMAIN perf["Channel"] :
          LET paid == perf["Channel"][i]
              free == perf["Channel"][k]
          IN /\ <<paid.Station, paid[WeekCol]>> \in SpendKeys \ (ResponseKeys \cup ActionPivotKeys)
             /\ paid.Cost > 0 /\ paid.Responses = 0
             /\ DiscoveredActionColumns(paid) # {}
             /\ <<free.Station, free[WeekCol]>> \in ActionPivotKeys \ SpendKeys
             /\ free.Cost = 0
             /\ \E l \in DiscoveredActionColumns(free) : free[l] > 0

\* the stations of the rank table in rank order, each at its first row
DistinctStationRows ==
    {k \in DOMAIN rank_table :
        \A j \in 1..(k - 1) : rank_table[j].Station # rank_table[k].Station}

\* C18 (one row per station): in the rank table of build_station_priority
\* no canonical Station name is in two rows, whatever the case and the
\* surrounding whitespace of the raw station cells; the top-3 table has at
\* most 3 rows with pairwise distinct stations, each a row of the rank
\* table, and they are the first three distinct stations of the rank order.
C18_OneRowPerStation ==
    Ranked_ =>
      /\ \A i, j \in DOMAIN rank_table :
            rank_table[i].Station = rank_table[j].Station => i = j
      /\ Len(rank_top3) <= 3
      /\ \A i, j \in DOMAIN rank_top3 :
            rank_top3[i].Station = rank_top3[j].Station => i = j
      /\ \A i \in DOMAIN rank_top3 : \E k \in DOMAIN rank_table : rank_table[k] = rank_top3[i]
      /\ Len(rank_top3) = Min({3, Cardinality(DistinctStationRows)})
      /\ \A i \in DOMAIN rank_top3 :
            /\ rank_top3[i].Rank \in DistinctStationRows
            /\ Cardinality({k \in DistinctStationRows : k < rank_top3[i].Rank}) = i - 1

\* C19 (ranker errors): build_station_priority raises ValueError exactly
\* when the ledger has no header matching a station alias (station,
\* stationname, channel) or no header matching one of the cost aliases of
\* build_compile_spend (clientgross, clientgrossamt, cost, gross, spend), so
\* a ledger the spend builder accepts is never rejected by the ranker.
C19_RankerErrors ==
    pc = "ranked" =>
      /\ raised \in {"", "ValueError"}
      /\ raised = "ValueError" <=>
            \/ first_col_by_keys(hdr, <<"station", "stationname", "channel">>) = NA
            \/ first_col_by_keys(hdr, <<"clientgross", "clientgrossamt", "cost", "gross",
                                        "spend">>) = NA
      /\ build_compile_spend(hdr, compile).raised = "" => raised = ""

\* a header of the raw table resolves to one of the aliases
Resolves(aliases) == Range(aliases) \cap cols_norm(raw_hdr) # {}

\* C20 (mapper errors): map_actions raises ValueError exactly when no
\* header resolves to SessionID or none resolves to Action, map_response
\* exactly when none resolves to SessionID; a missing optional column never
\* raises: without a station header every Station is UNKNOWN, without a
\* timestamp or date header every Timestamp is missing, without a
\* probability header every Probability is minus infinity, and Creative,
\* Market and TotalActionRevenue are simply left out.
C20_MapperErrors ==
    /\ pc = "mapped_actions" =>
         /\ raised \in {"", "ValueError"}
         /\ raised = "ValueError" <=> (~Resolves(SessionKeys) \/ ~Resolves(ActionLabelKeys))
    /\ pc = "mapped_response" =>
         /\ raised \in {"", "ValueError"}
         /\ raised = "ValueError" <=> ~Resolves(SessionKeys)
    /\ (pc \in {"mapped_actions", "mapped_response"} /\ raised = "") =>
         /\ Len(mapped) = Len(raw)
         /\ \A i \in DOMAIN mapped :
              /\ ~Resolves(StationCandidates) => mapped[i].Station = "UNKNOWN"
              /\ (raw_hdr.timestamp = NA /\ raw_hdr.date = NA) => mapped[i].Timestamp = NaT
              /\ (pc = "mapped_actions" /\ raw_hdr.probability = NA) =>
                    mapped[i].Probability = NegInf
              /\ raw_hdr.creative = NA => "Creative" \notin DOMAIN mapped[i]
              /\ raw_hdr.market = NA => "Market" \notin DOMAIN mapped[i]
              /\ raw_hdr.revenue = NA => "TotalActionRevenue" \notin DOMAIN mapped[i]

\* an actions extract with the two required headers and nothing else, mapped
\* to a row with the three defaults
C20_Witness ==
    /\ pc = "mapped_actions" /\ raised = ""
    /\ raw_hdr = [NoRawHeaders EXCEPT !.sid = "Session ID", !.action = "Event"]
    /\ Len(mapped) >= 1
    /\ mapped[1] = [SessionID |-> "S1", Action |-> "Click", Station |-> "UNKNOWN",
                    Timestamp |-> NaT, Probability |-> NegInf]

(***************************************************************************)
(* Properties of the revenue stage                                         *)
(***************************************************************************)

\* the source actions extract had a revenue column (mapping.py lines 97-102)
SourceHadRevenue == "TotalActionRevenue" \in Range(actions_m_columns)

HasRevenueMetrics(t) ==
    /\ ReportTable(t) # <<>>
    /\ {"Action Revenue", "ROI"} \subseteq DOMAIN ReportTable(t)[1]

\* C21 (action-revenue mode): after the revenue stage of a run, with mode
\* 'off' no table has the revenue metrics; with mode 'auto' every table
\* that has rows has Action Revenue and ROI if and only if the source
\* actions extract had a revenue column; with mode 'on' the tables have
\* them whenever the revenue column was present, and do not have them when
\* it was absent.
C21_RevenueMode ==
    RevenueDone =>
      \A t \in ReportTables :
         /\ action_rev_mode = "off" => ~HasRevenueMetrics(t)
         /\ (action_rev_mode \in {"auto", "on"} /\ ReportTable(t) # <<>>) =>
              (HasRevenueMetrics(t) <=> SourceHadRevenue)

(***************************************************************************)
(* Properties of the main machine                                          *)
(***************************************************************************)
MainReturned == pc = "main_returned"

\* the stage whose call raises the structural error of the inputs, if any
StructuralError ==
    IF map_actions(raw_hdr, raw).raised = "ValueError" THEN "mapping"
    ELSE IF map_response(response_hdr, response_raw).raised = "ValueError" THEN "mapping"
    ELSE IF build_station_priority(hdr, compile).raised = "ValueError" THEN "ranking"
    ELSE IF build_compile_spend(hdr, compile).raised = "ValueError" THEN "aggregation"
    ELSE ""

\* the stages from s on
StagesFrom(s) ==
    {MainStages[k] : k \in {j \in DOMAIN MainStages :
                               \E i \in 1..j : MainStages[i] = s}}

\* C22 (pipeline ordering): nothing is written to a workbook, a CSV file or
\* Google Sheets before mapping, ranking, deduplication, aggregation and
\* revenue injection have all completed, in that order; and when a stage
\* raises a ValueError for a missing column, main returns 1 from that
\* stage: neither that stage nor a later one completes and nothing is
\* written.
C22_PipelineOrder ==
    /\ written # <<>> => completed = MainStages
    /\ \E n \in 0..Len(MainStages) : completed = SubSeq(MainStages, 1, n)
    /\ StructuralError # "" =>
         /\ Range(completed) \cap StagesFrom(StructuralError) = {}
         /\ written = <<>>
         /\ exit_code # 0
    /\ (StructuralError # "" /\ raised = "ValueError") =>
         /\ MainReturned
         /\ exit_code = 1
         /\ \A s \in Range(MainStages) :
               s \in Range(completed) <=> s \notin StagesFrom(StructuralError)
    /\ (MainReturned /\ exit_code = 0) => completed = MainStages

\* the actions extract lacks its action header: the run ended in map_actions
\* with exit code 1, nothing completed and nothing written
C22_Witness ==
    /\ MainReturned
    /\ raised = "ValueError"
    /\ raw_hdr.sid # NA /\ raw_hdr.action = NA
    /\ ~validate_compile_data(hdr)
    /\ exit_code = 1
    /\ completed = <<>>
    /\ written = <<>>

\* the Rank the top-3 table gives the station of input row j
RankOf(j) == rank_map(top3, CanonStation(df[j]))

\* the rows of the group of input row i that are on a top-3 station
RankedRows(i) == {j \in InputGroup(i) : Ranked(df[j])}

\* input row w comes first under the priority rule among the ranked rows
PriorityFirst(w, rows) ==
    \A j \in rows :
       \/ RankOf(w) < RankOf(j)
       \/ /\ RankOf(w) = RankOf(j)
          /\ LET tw == coerce_datetime(df[w].Timestamp)
                 tj == coerce_datetime(df[j].Timestamp)
             IN \/ (tw # tj /\ NoLater(tw, tj))
                \/ (tw = tj /\ w <= j)

\* C23 (priority rule winner): in dedupe_actions, a group with at least one
\* row on a top-3 station is survived by exactly the row that has the
\* lowest Rank among the ranked rows of the group, among the rows of that
\* Rank the earliest Timestamp (a missing Timestamp after every valid one),
\* and among those the earliest position in the input.
C23_PriorityWinner ==
    ActionsDone =>
      \A i \in 1..Len(df) :
        (KeyPresent(df[i], mode) /\ RankedRows(i) # {}) =>
           /\ Cardinality(Survivors(i)) = 1
           /\ \A k \in Survivors(i) :
                /\ deduped[k].SourceRowID + 1 \in RankedRows(i)
                /\ PriorityFirst(deduped[k].SourceRowID + 1, RankedRows(i))

\* two rows of one group on the same top-3 station: the first has no
\* Timestamp, the second has one and survives
C23_Witness ==
    /\ ActionsDone
    /\ Len(df) >= 2
    /\ KeyPresent(df[1], mode)
    /\ {1, 2} \subseteq RankedRows(1)
    /\ RankOf(1) = RankOf(2)
    /\ df[1].Timestamp = NaT /\ df[2].Timestamp # NaT
    /\ \E k \in Survivors(1) : deduped[k].SourceRowID = 1

\* the ledger rows (positions) whose station cell canonicalises to s
LedgerRowsOf(s) ==
    {i \in DOMAIN compile :
        /\ compile[i].station # NA
        /\ fillna(norm_station(compile[i].station), NA, "UNKNOWN") = s}

\* the spot count the ledger states for station s: the sum of the spot-count
\* column if the ledger has one, else the number of rows
StatedSpotCount(s) ==
    IF has_spotcount_col(hdr)
    THEN SumOver([i \in DOMAIN compile |-> fillna(coerce_numeric(compile[i].spots), NaN, 0)],
                 LedgerRowsOf(s))
    ELSE Cardinality(LedgerRowsOf(s))

\* C24 (SpotCount): in the rank table of build_station_priority the
\* SpotCount of a station is the sum of the explicit spot-count column over
\* the station's ledger rows whenever the ledger has such a column, whatever
\* the cost column is called, and the number of the station's ledger rows
\* only when it has none; a station whose SpotCount is 0 has no row, so
\* every row has SpotCount > 0.
C24_SpotCount ==
    Ranked_ =>
      /\ \A k \in DOMAIN rank_table : rank_table[k].SpotCount > 0
      /\ \A s \in {rank_table[k].Station : k \in DOMAIN rank_table}
                    \cup {s \in {"WABC", "WNBC", "UNKNOWN"} : LedgerRowsOf(s) # {}} :
            SumOver([k \in DOMAIN rank_table |-> rank_table[k].SpotCount],
                    {k \in DOMAIN rank_table : rank_table[k].Station = s})
              = StatedSpotCount(s)

MappedOk == pc \in {"mapped_actions", "mapped_response"} /\ raised = ""

\* the Timestamp the claim states for raw row i: the combined column if the
\* extract has one, else the date cell with the time cell when it has both
\* a date and a time header, else the date cell alone, else missing
StatedTimestamp(i) ==
    IF raw_hdr.timestamp # NA THEN coerce_datetime(raw[i].timestamp)
    ELSE IF raw_hdr.date # NA /\ raw_hdr.time # NA
    THEN IF raw[i].date = NaT \/ raw[i].time = NaT THEN NaT
         ELSE raw[i].date + raw[i].time
    ELSE IF raw_hdr.date # NA THEN coerce_datetime(raw[i].date)
    ELSE NaT

\* C25 (timestamp resolution): map_actions and map_response take the
\* Timestamp from the combined-datetime column if the extract has one;
\* otherwise, if it has a date header and a time header (such as Date and
\* Time), each Timestamp is the date and the time of the row stitched
\* together; it is the date alone only when there is no time header, and
\* missing when there is none of these.
C25_TimestampResolution ==
    MappedOk => \A i \in DOMAIN mapped : mapped[i].Timestamp = StatedTimestamp(i)

(***************************************************************************)
(* Properties of the modes machine                                         *)
(***************************************************************************)
ModesDone == pc = "modes"

\* the rows dedupe_actions returns for the same input in mode with_action
WithActionRows == dedupe_actions(df, top3, "with_action").rows

\* C26 (mode refinement): for every actions input and top-3 table, every
\* row that dedupe_actions returns in mode session_only is also returned in
\* mode with_action on the same input, so the session_only output has no
\* more rows than the with_action output.
C26_ModeRefinement ==
    (ModesDone /\ mode = "session_only") =>
       /\ \A k \in DOMAIN deduped : \E j \in DOMAIN WithActionRows : WithActionRows[j] = deduped[k]
       /\ Len(deduped) <= Len(WithActionRows)

ActionsAgain == pc = "modes_again"
ResponseAgain == pc = "modes_response_again"

\* C27 (idempotence): dedupe_actions applied to its own output, with the
\* same mode and top-3 table, and dedupe_response applied to its own
\* output, return the rows they were given, with the same SessionID, Action,
\* Station, Timestamp and Probability in the same order, remove no row and
\* report as many groups as there are rows.
C27_Idempotent ==
    /\ ActionsAgain =>
         /\ Len(deduped) = Len(df)
         /\ stats.groups = Len(df)
         /\ \A k \in DOMAIN df :
              \A c \in ActionColumns : deduped[k][c] = df[k][c]
    /\ ResponseAgain =>
         /\ raised = ""
         /\ Len(deduped) = Len(df)
         /\ stats.groups = Len(df)
         /\ \A k \in DOMAIN df :
              \A c \in ResponseColumns : deduped[k][c] = df[k][c]

\* a with_action output of two rows, one of them without Timestamp, comes
\* back unchanged from the second call
C27_Witness ==
    /\ ActionsAgain
    /\ mode = "with_action"
    /\ Len(df) = 2
    /\ df[1].Action # df[2].Action
    /\ df[1].Timestamp = NaT
    /\ Len(deduped) = 2
    /\ deduped[1].Action = df[1].Action

\* the sum of column c over the rows of the Channel table, 0 for a column
\* the table does not have
ChannelTotal(c) ==
    SumOver([k \in DOMAIN perf["Channel"] |->
                IF c \in DOMAIN perf["Channel"][k] THEN perf["Channel"][k][c] ELSE 0],
            DOMAIN perf["Channel"])

\* C28 (event conservation): in the Channel table the Responses of all rows
\* add up to the number of deduplicated response rows, and for every action
\* label the cells of its column add up to the number of deduplicated
\* action rows with that label, events without Timestamp included.
C28_EventConservation ==
    PerfDone =>
      /\ ChannelTotal("Responses") = Len(response_dedup)
      /\ \A label \in {actions_dedup[i].Action : i \in DOMAIN actions_dedup} :
            ChannelTotal(label)
              = Cardinality({i \in DOMAIN actions_dedup : actions_dedup[i].Action = label})

\* the sum of Cost over the rows of a spend table
SpendTotal(name) ==
    SumOver([k \in DOMAIN spend[name] |-> spend[name][k].Cost], DOMAIN spend[name])

\* the sum of the coerced Cost of all ledger rows
LedgerCostTotal ==
    SumOver([i \in DOMAIN compile |-> fillna(coerce_numeric(compile[i].cost), NaN, 0)],
            DOMAIN compile)

\* C29 (spend conservation): for a ledger with a date column the Cost of
\* the weekly station spend table, and of the Channel table, adds up to the
\* coerced Cost of all ledger rows, which is the total Cost of the all-time
\* station spend table, rows without a parseable date included.
C29_SpendConservation ==
    (PerfDone /\ first_col_by_keys(hdr, DateKeys) # NA) =>
      /\ SpendTotal("station") = LedgerCostTotal
      /\ SpendTotal("station_w") = LedgerCostTotal
      /\ ChannelTotal("Cost") = LedgerCostTotal

\* a label with the whitespace around it and the letter case ignored
FoldLabel(s) == StrUpper(StrStrip(s))

\* the market a label denotes: National for the three national spellings
DenotedMarket(s) ==
    IF FoldLabel(s) \in {"NATIONAL", "NATIONAL CABLE", "NATIONAL NETWORK"}
    THEN "National" ELSE FoldLabel(s)

\* the deduplicated events, actions then responses, with their week
DedupedEvents == PrepareEvents(actions_dedup) \o PrepareEvents(response_dedup)

\* the ledger row j and the deduplicated event k are of one week
SameWeek(j, k) ==
    LET v == LedgerView(hdr, compile)[j]
    IN v[WeekCol] # NaN /\ v[WeekCol] = DedupedEvents[k][WeekCol]

\* the rows of Channel by Creative for the station and week of ledger row j
\* whose Creative is the label c up to whitespace and case
CreativeRows(j, c) ==
    LET v == LedgerView(hdr, compile)[j]
        t == perf["Channel by Creative"]
    IN {r \in DOMAIN t : /\ t[r].Station = v.Station
                         /\ t[r][WeekCol] = v[WeekCol]
                         /\ t[r].Creative # NA
                         /\ FoldLabel(t[r].Creative) = FoldLabel(c)}

\* the rows of Market for the week of ledger row j whose Market denotes m
MarketRows(j, m) ==
    LET v == LedgerView(hdr, compile)[j]
        t == market_df
    IN {r \in DOMAIN t : /\ t[r][WeekCol] = v[WeekCol]
                         /\ DenotedMarket(t[r].Market) = m}

\* C30 (join-key consistency): a ledger row and a deduplicated event of the
\* same Station and week whose Creative labels agree up to whitespace and
\* letter case are in one row of Channel by Creative, and a ledger row and
\* an event of the same week whose Market labels denote the same market are
\* in one row of Market.
C30_JoinKeys ==
    MainAggregated =>
      \A j \in DOMAIN compile, k \in DOMAIN DedupedEvents :
         /\ (/\ SameWeek(j, k)
             /\ LedgerView(hdr, compile)[j].Station = DedupedEvents[k].Station
             /\ DedupedEvents[k].Creative # NA
             /\ FoldLabel(compile[j].creative) = FoldLabel(DedupedEvents[k].Creative))
              => Cardinality(CreativeRows(j, compile[j].creative)) = 1
         /\ (/\ SameWeek(j, k)
             /\ DedupedEvents[k].Market # NA
             /\ DenotedMarket(compile[j].market) = DenotedMarket(DedupedEvents[k].Market))
              => Cardinality(MarketRows(j, DenotedMarket(compile[j].market))) = 1

====
